---- MODULE Spec2Model ----
(***************************************************************************)
(* Browser-side chat client (lexyo): room store, echo deduplicator, tab /  *)
(* room switch engine and inbound event dispatcher.                        *)
(*                                                                         *)
(* A handler of the client runs to completion on the single JS thread, so  *)
(* every handler is one action.  The code of a handler is a sequence of    *)
(* calls on module-level state; each function of the source is an operator *)
(* from a state record to a state record, and a handler is the composition *)
(* of the operators in the order of the source.                            *)
(***************************************************************************)
EXTENDS Integers, Sequences, FiniteSets, TLC

VARIABLES
    myPseudo,           \* state.js: local display name
    joinedRooms,        \* state.js: ordered list of joined room keys
    currentRoom,        \* state.js: current room key or null
    roomMessages,       \* state.js: room key -> sequence of render artifacts
    mpPeerByRoom,       \* state.js: private room key -> peer display name
    LOCAL_ECHO_BUFFER,  \* messages.js: recently self-sent public texts
    messagesEl,         \* dom.js: the visible message view (its children)
    tabsEl,             \* dom.js: the rendered tab strip
    blinkTimers,        \* browser: rooms of the startTabBlink callbacks not yet run
    userIsAtBottom,     \* utils.js: the view is pinned at its end
    scrollTop,          \* dom.js: messagesEl.scrollTop, in px
    scrollTimers,       \* browser: scroll callbacks requested and not yet run
    mediaEls,           \* dom.js: the <img> and <video> elements of the view
    appVisible,         \* dom.js: #login is hidden and #app is shown
    msgInput,           \* dom.js: the text typed in the input and not yet sent
    connected,          \* sockets.js: the socket has not been disconnected
    switchedTo,         \* the room of the switchTo call of the last handler, if any
    emitted,            \* socket.emit calls made by the last handler
    now,                \* Date.now() in ms
    inflight,           \* environment: own send_message not yet echoed
    nCalls,             \* echo-buffer scenarios: rememberLocalEcho calls made
    resolvers,          \* turnstile.js: resolve callbacks waiting for a token
    timer,              \* turnstile.js: the timeout handle kept last, or null
    timeouts,           \* browser: setTimeout callbacks armed and not cleared
    requests,           \* the promises runTurnstile returned, with their callers
    errorBox,           \* dom.js: the text #error shows, "" when hidden
    lastEvent           \* the handler that ran last, with its inputs

vars == <<myPseudo, joinedRooms, currentRoom, roomMessages, mpPeerByRoom,
          LOCAL_ECHO_BUFFER, messagesEl, tabsEl, blinkTimers, appVisible,
          msgInput, connected, switchedTo, emitted, now, inflight, nCalls, resolvers, timer, timeouts,
          requests, errorBox, userIsAtBottom, scrollTop, scrollTimers, mediaEls, lastEvent>>

\* the state of the verification-token module and of its callers
tsVars == <<resolvers, timer, timeouts, requests, errorBox>>

\* the scroll state of the view and of the media it shows
scrollVars == <<userIsAtBottom, scrollTop, scrollTimers, mediaEls>>

-----------------------------------------------------------------------------
(* Bounds of the model *)

\* total number of artifacts kept in all stored logs
MaxStored == 2
\* own public messages sent and not yet echoed by the server
MaxInflight == 1
\* clock advances
MaxTicks == 2
\* rememberLocalEcho calls in the echo-buffer scenarios
MaxRemember == 30
\* startTabBlink callbacks waiting to run
MaxBlinkTimers == 1

(* Program constants *)
LOCAL_ECHO_MAX == 25
LOCAL_ECHO_TTL_MS == 5000

-----------------------------------------------------------------------------
(* JavaScript values *)

\* undefined / null: an absent field, the null current room
Undef == "~undefined"

\* !v for the strings the client tests
Falsy(v) == v = Undef \/ v = ""

\* a || b
OrElse(a, b) == IF Falsy(a) THEN b ELSE a

\* a ?? b
Coalesce(a, b) == IF a = Undef THEN b ELSE a

\* String.prototype.startsWith
StartsWith(s, p) == Len(s) >= Len(p) /\ SubSeq(s, 1, Len(p)) = p

\* String.prototype.includes
Includes(s, sub) ==
    \E i \in 1..(Len(s) - Len(sub) + 1) : SubSeq(s, i, i + Len(sub) - 1) = sub

\* String.prototype.indexOf, 0-based, -1 when absent
IndexOf(s, sub) ==
    LET hits == {i \in 1..(Len(s) - Len(sub) + 1) :
                    SubSeq(s, i, i + Len(sub) - 1) = sub}
    IN IF hits = {} THEN -1
       ELSE (CHOOSE i \in hits : \A j \in hits : i <= j) - 1

\* String.prototype.slice(from), 0-based
SliceFrom(s, from) == SubSeq(s, from + 1, Len(s))

RECURSIVE TrimStart(_)
TrimStart(s) ==
    IF Len(s) > 0 /\ SubSeq(s, 1, 1) = " " THEN TrimStart(SubSeq(s, 2, Len(s)))
    ELSE s

RECURSIVE TrimEnd(_)
TrimEnd(s) ==
    IF Len(s) > 0 /\ SubSeq(s, Len(s), Len(s)) = " "
    THEN TrimEnd(SubSeq(s, 1, Len(s) - 1))
    ELSE s

\* String.prototype.trim (the inputs hold no white space but " ")
Trim(s) == TrimEnd(TrimStart(s))

\* String.prototype.split(" ")
RECURSIVE Split(_)
Split(s) ==
    LET i == IndexOf(s, " ")
    IN IF i = -1 THEN <<s>>
       ELSE <<SubSeq(s, 1, i)>> \o Split(SliceFrom(s, i + 1))

UpperChars == "ABCDEFGHIJKLMNOPQRSTUVWXYZ"
LowerChars == "abcdefghijklmnopqrstuvwxyz"

LowerChar(c) ==
    LET i == IndexOf(UpperChars, c)
    IN IF i = -1 THEN c ELSE SubSeq(LowerChars, i + 1, i + 1)

RECURSIVE LowerAll(_)
LowerAll(s) ==
    IF Len(s) = 0 THEN ""
    ELSE LowerChar(SubSeq(s, 1, 1)) \o LowerAll(SubSeq(s, 2, Len(s)))

\* The strings the handlers meet most often.  The character-wise conversions
\* below are tabulated over them once; any other string is converted directly.
KnownStrings ==
    {"", "a", "a ", " a ", "me", "Lexyo", "bob", "eve", "JS", "txt", "x<1", "waves",
     "<b>", "<B>", "<i>&\"'", "http://h/a.png", "http://h/a.mp4",
     "* bob waves", "* eve waves", "welcome", "Conversation No Longer Exists",
     "Room already exists", "You were kicked.", "Usage: /mp username message",
     "This private conversation is no longer available."}

LowerTable == [t \in KnownStrings |-> LowerAll(t)]

\* String.prototype.toLowerCase
ToLowerCase(s) == IF s \in KnownStrings THEN LowerTable[s] ELSE LowerAll(s)

\* String(n).padStart(2, "0")
Pad2(n) == IF n < 10 THEN "0" \o ToString(n) ELSE ToString(n)

\* Array.prototype.filter(r => r !== x)
RECURSIVE Without(_, _)
Without(seq, x) ==
    IF seq = <<>> THEN <<>>
    ELSE IF Head(seq) = x THEN Without(Tail(seq), x)
    ELSE <<Head(seq)>> \o Without(Tail(seq), x)

\* Array.prototype.includes
InSeq(seq, x) == \E i \in 1..Len(seq) : seq[i] = x

\* Array.prototype.indexOf followed by splice(idx, 1) when idx !== -1
SpliceFirst(seq, x) ==
    IF ~InSeq(seq, x) THEN seq
    ELSE LET i == CHOOSE k \in 1..Len(seq) :
                      seq[k] = x /\ \A j \in 1..(k - 1) : seq[j] # x
         IN SubSeq(seq, 1, i - 1) \o SubSeq(seq, i + 1, Len(seq))

\* delete obj[key]
Delete(f, key) == [k \in (DOMAIN f) \ {key} |-> f[k]]

\* obj[key] = value
Put(f, key, value) == [k \in (DOMAIN f) \cup {key} |-> IF k = key THEN value ELSE f[k]]

EmptyMap == [k \in {} |-> Undef]

-----------------------------------------------------------------------------
(* utils.js *)

EscapeChar(c) ==
    IF c = "&" THEN "&amp;"
    ELSE IF c = "<" THEN "&lt;"
    ELSE IF c = ">" THEN "&gt;"
    ELSE IF c = "\"" THEN "&quot;"
    ELSE IF c = "'" THEN "&#039;"
    ELSE c

RECURSIVE EscapeAll(_)
EscapeAll(s) ==
    IF Len(s) = 0 THEN ""
    ELSE EscapeChar(SubSeq(s, 1, 1)) \o EscapeAll(SubSeq(s, 2, Len(s)))

EscapeTable == [t \in KnownStrings |-> EscapeAll(t)]

escapeHTML(str) ==
    IF Falsy(str) THEN ""
    ELSE IF str \in KnownStrings THEN EscapeTable[str]
    ELSE EscapeAll(str)

\* the badge is kept beside the name: "shield" for the admin mark, "star"
\* for the moderator mark
formatPseudo(pseudo, isAdmin, isMod) ==
    IF Falsy(pseudo) THEN [name |-> "", badge |-> ""]
    ELSE IF isAdmin \/ ToLowerCase(pseudo) = "lexyo"
         THEN [name |-> pseudo, badge |-> "shield"]
    ELSE IF isMod THEN [name |-> pseudo, badge |-> "star"]
    ELSE [name |-> pseudo, badge |-> ""]

\* the [HH:MM] label of a time in epoch seconds (UTC)
TimeLabel(ts) ==
    "[" \o Pad2((ts \div 3600) % 24) \o ":" \o Pad2((ts \div 60) % 60) \o "]"

\* timestamp || Math.floor(Date.now() / 1000); an absent timestamp is 0
TimeOf(timestamp, nowMs) ==
    IF timestamp = 0 THEN nowMs \div 1000 ELSE timestamp

\* String.prototype.endsWith
EndsWith(s, p) == Len(s) >= Len(p) /\ SubSeq(s, Len(s) - Len(p) + 1, Len(s)) = p

getMediaTypeFromUrl(url) ==
    LET lower == ToLowerCase(url)
    IN IF \E e \in {".jpeg", ".jpg", ".png", ".gif", ".webp"} : EndsWith(lower, e)
       THEN "image"
       ELSE IF \E e \in {".mp3", ".wav", ".ogg"} : EndsWith(lower, e) THEN "audio"
       ELSE IF \E e \in {".mp4", ".webm"} : EndsWith(lower, e) THEN "video"
       ELSE Undef

\* extractYouTubeID(url) finds an id
IsYouTube(url) ==
    \/ Includes(url, "youtube.com/watch?v=")
    \/ Includes(url, "youtu.be/")
    \/ Includes(url, "youtube.com/shorts/")

\* where the match of /https?:\/\/[^\s]+/ starts in a word without white
\* space, -1 when there is none
UrlStart(w) ==
    LET i == IndexOf(w, "http://")
        j == IndexOf(w, "https://")
        a == IF i >= 0 /\ Len(w) > i + 7 THEN i ELSE -1
        b == IF j >= 0 /\ Len(w) > j + 8 THEN j ELSE -1
    IN IF a = -1 THEN b ELSE IF b = -1 THEN a ELSE IF a < b THEN a ELSE b

RECURSIVE UrlsOfWords(_)
UrlsOfWords(words) ==
    IF words = <<>> THEN <<>>
    ELSE (IF UrlStart(Head(words)) = -1 THEN <<>>
          ELSE <<SliceFrom(Head(words), UrlStart(Head(words)))>>)
         \o UrlsOfWords(Tail(words))

\* shown.match(urlRegex) || []
Urls(shown) == UrlsOfWords(Split(shown))

\* the elements the embeds of the URLs bring: an image (the thumbnail for a
\* YouTube link), an audio or a video element
RECURSIVE buildMediaEmbeds(_)
buildMediaEmbeds(urls) ==
    IF urls = <<>> THEN <<>>
    ELSE LET url == Head(urls)
             type == getMediaTypeFromUrl(url)
         IN (IF IsYouTube(url) \/ type = "image" THEN <<"img">>
             ELSE IF type = "audio" THEN <<"audio">>
             ELSE IF type = "video" THEN <<"video">>
             ELSE <<>>)
            \o buildMediaEmbeds(Tail(urls))

\* safeShown.replace(urlRegex, url => <a href=url ...>url</a>)
RECURSIVE LinkWords(_)
LinkWords(words) ==
    LET w == Head(words)
        i == UrlStart(w)
        linked == IF i = -1 THEN w
                  ELSE SubSeq(w, 1, i) \o "<a href=\"" \o SliceFrom(w, i)
                       \o "\" target=\"_blank\" rel=\"noopener noreferrer\" class=\"msg-link\">"
                       \o SliceFrom(w, i) \o "</a>"
    IN IF Len(words) = 1 THEN linked
       ELSE linked \o " " \o LinkWords(Tail(words))

Linkify(safeShown) == LinkWords(Split(safeShown))

EmbedTable == [t \in KnownStrings |-> buildMediaEmbeds(Urls(t))]
BodyTable == [t \in KnownStrings |-> Linkify(EscapeAll(t))]

\* what a call yields when it throws "TypeError: shown is undefined"
TypeError ==
    [kind |-> "TypeError", self |-> FALSE, time |-> "",
     user |-> [name |-> "", badge |-> ""], body |-> "", orig |-> "", lang |-> "",
     embeds |-> <<>>]

\* A render artifact is the record of the parts the markup is built from:
\* the escaped body with its URLs turned into links, and the media elements
\* of the embeds. The texts of the model hold no @mention. shown.match(...)
\* throws when shown is undefined.
renderHTMLMessage(pseudo, shown, original, timestamp, isSelf, isAdmin, isMod, nowMs) ==
    IF shown = Undef THEN TypeError
    ELSE [kind |-> "msg",
          self |-> isSelf,
          time |-> TimeLabel(TimeOf(timestamp, nowMs)),
          user |-> formatPseudo(pseudo, isAdmin, isMod),
          body |-> IF shown \in KnownStrings THEN BodyTable[shown]
                   ELSE Linkify(escapeHTML(shown)),
          orig |-> IF ~Falsy(original) /\ original # shown
                   THEN escapeHTML(original) ELSE "",
          lang |-> "",
          embeds |-> IF shown \in KnownStrings THEN EmbedTable[shown]
                     ELSE buildMediaEmbeds(Urls(shown))]

-----------------------------------------------------------------------------
(* state.js *)

setMpPeer(s, room, pseudo) ==
    IF Falsy(room) \/ Falsy(pseudo) THEN s
    ELSE [s EXCEPT !.mpPeerByRoom = Put(@, room, pseudo)]

\* faulty variant: without an entry the peer is read off the room key
getMpPeer_FromRoomKey(s, room) ==
    IF room \in DOMAIN s.mpPeerByRoom /\ ~Falsy(s.mpPeerByRoom[room])
    THEN s.mpPeerByRoom[room]
    ELSE SliceFrom(room, 1)

getMpPeer(s, room) ==
    IF room \in DOMAIN s.mpPeerByRoom THEN OrElse(s.mpPeerByRoom[room], Undef)
    ELSE Undef

\* faulty variant: the entry is left in the map
clearMpPeer_Keep(s, room) == s

clearMpPeer(s, room) ==
    IF Falsy(room) THEN s
    ELSE [s EXCEPT !.mpPeerByRoom = Delete(@, room)]

\* faulty variant: the stored log of the room is kept
cleanupMpRoom_KeepLog(s, room) ==
    IF Falsy(room) THEN s
    ELSE LET s1 == [s EXCEPT !.joinedRooms = Without(@, room)]
             s2 == clearMpPeer(s1, room)
         IN IF s2.currentRoom = room
            THEN [s2 EXCEPT !.currentRoom =
                     IF Len(s2.joinedRooms) > 0 THEN s2.joinedRooms[1] ELSE Undef]
            ELSE s2

cleanupMpRoom(s, room) ==
    IF Falsy(room) THEN s
    ELSE LET s1 == [s EXCEPT !.joinedRooms = Without(@, room)]
             s2 == clearMpPeer(s1, room)
             s3 == [s2 EXCEPT !.roomMessages = Delete(@, room)]
         IN IF s3.currentRoom = room
            THEN [s3 EXCEPT !.currentRoom =
                     IF Len(s3.joinedRooms) > 0 THEN s3.joinedRooms[1] ELSE Undef]
            ELSE s3

setMyPseudo(s, v) == [s EXCEPT !.myPseudo = v]

setCurrentRoom(s, r) == [s EXCEPT !.currentRoom = r]

\* faulty variant: the key is pushed without looking for it
addJoinedRoom_NoCheck(s, r) ==
    [s EXCEPT !.joinedRooms = Append(@, r)]

addJoinedRoom(s, r) ==
    IF InSeq(s.joinedRooms, r) THEN s
    ELSE [s EXCEPT !.joinedRooms = Append(@, r)]

\* faulty variant: the key gets a new empty log at every call
ensureRoomArray_AlwaysFresh(s, room) ==
    [s EXCEPT !.roomMessages = Put(@, room, <<>>)]

\* the log is the entry of roomMessages under the key: the call returns
\* that entry and assigns a new one only when the key has none
ensureRoomArray(s, room) ==
    IF room \in DOMAIN s.roomMessages THEN s
    ELSE [s EXCEPT !.roomMessages = Put(@, room, <<>>)]

\* roomMessages[room] || []
LogOf(s, room) ==
    IF room \in DOMAIN s.roomMessages THEN s.roomMessages[room] ELSE <<>>

-----------------------------------------------------------------------------
(* The geometry of the view *)

\* container.clientHeight, in px
ClientHeight == 100
\* the height of a message, system or action line
LineHeight == 20
\* the height of a code block
BlockHeight == 200
\* the height an image takes once loaded (max-height of the embed)
ImageHeight == 220
\* the height a video element takes (max-height of the embed)
VideoHeight == 260

RECURSIVE LinesHeight(_)
LinesHeight(view) ==
    IF view = <<>> THEN 0
    ELSE (IF Head(view).kind = "code" THEN BlockHeight ELSE LineHeight)
         + LinesHeight(Tail(view))

RECURSIVE MediaHeight(_)
MediaHeight(els) ==
    IF els = <<>> THEN 0
    ELSE (IF Head(els).tag = "video" THEN VideoHeight
          ELSE IF Head(els).state = "loaded" THEN ImageHeight
          ELSE 0)
         + MediaHeight(Tail(els))

\* container.scrollHeight
ScrollHeight(s) ==
    LET content == LinesHeight(s.messagesEl) + MediaHeight(s.mediaEls)
    IN IF content > ClientHeight THEN content ELSE ClientHeight

\* the <img> and <video> elements the markup of a list of artifacts creates:
\* nothing loaded yet, no listener
RECURSIVE MediaOfEmbeds(_)
MediaOfEmbeds(embeds) ==
    IF embeds = <<>> THEN <<>>
    ELSE (IF Head(embeds) \in {"img", "video"}
          THEN <<[tag |-> Head(embeds), state |-> "pending", scans |-> 0]>>
          ELSE <<>>)
         \o MediaOfEmbeds(Tail(embeds))

RECURSIVE FreshMedia(_)
FreshMedia(list) ==
    IF list = <<>> THEN <<>>
    ELSE MediaOfEmbeds(Head(list).embeds) \o FreshMedia(Tail(list))

-----------------------------------------------------------------------------
(* utils.js: the scroll state *)

\* userIsAtBottom = scrollHeight - scrollTop - clientHeight < 50
updateScrollState(s) ==
    [s EXCEPT !.userIsAtBottom = ScrollHeight(s) - s.scrollTop - ClientHeight < 50]

\* the scroll position moves to v, kept between 0 and the largest offset
\* of the content; when it moves, the browser fires "scroll" and the
\* listener of the view (messages.js 138) runs updateScrollState
ScrollTo(s, v) ==
    LET max == ScrollHeight(s) - ClientHeight
        top == IF v > max THEN max ELSE IF v < 0 THEN 0 ELSE v
    IN IF top = s.scrollTop THEN s
       ELSE updateScrollState([s EXCEPT !.scrollTop = top])

\* container.scrollTop = container.scrollHeight
ScrollToEnd(s) == ScrollTo(s, ScrollHeight(s))

\* a callback handed to requestAnimationFrame (delay 0) or to setTimeout
Callback(delay, run, by) == [delay |-> delay, run |-> run, by |-> by]

\* faulty variant: the two timeouts write whatever the flag is by then
scrollToBottom_Unguarded(s) ==
    IF ~s.userIsAtBottom THEN s
    ELSE [s EXCEPT !.scrollTimers = @ \o
             <<Callback(0, "write", "scrollToBottom"),
               Callback(30, "write", "scrollToBottom"),
               Callback(120, "write", "scrollToBottom")>>]

scrollToBottom(s) ==
    IF ~s.userIsAtBottom THEN s
    ELSE [s EXCEPT !.scrollTimers = @ \o
             <<Callback(0, "write", "scrollToBottom"),
               Callback(30, "writeIfPinned", "scrollToBottom"),
               Callback(120, "writeIfPinned", "scrollToBottom")>>]

forceScrollToBottom(s) ==
    [s EXCEPT !.scrollTimers = @ \o
        <<Callback(0, "write", "forceScrollToBottom"),
          Callback(30, "write", "forceScrollToBottom"),
          Callback(120, "write", "forceScrollToBottom")>>]

\* requestAnimationFrame(() => requestAnimationFrame(inner))
DoubleFrame(s, inner, by) ==
    [s EXCEPT !.scrollTimers = Append(@, Callback(0, inner, by))]

\* what a callback does when the browser runs it
RunCallback(s, c) ==
    IF c.run = "write" THEN ScrollToEnd(s)
    ELSE IF c.run = "writeIfPinned"
    THEN (IF s.userIsAtBottom THEN ScrollToEnd(s) ELSE s)
    ELSE IF c.run = "frame:write"
    THEN [s EXCEPT !.scrollTimers = Append(@, Callback(0, "write", c.by))]
    ELSE IF c.run = "frame:force"
    THEN [s EXCEPT !.scrollTimers = Append(@, Callback(0, "force", c.by))]
    ELSE forceScrollToBottom(s)

-----------------------------------------------------------------------------
(* media.js *)

\* if (userIsAtBottom) scrollToBottom(container), n times
RECURSIVE ScrollIfPinned(_, _)
ScrollIfPinned(s, n) ==
    IF n = 0 \/ ~s.userIsAtBottom THEN s
    ELSE ScrollIfPinned(scrollToBottom(s), n - 1)

\* img.complete, video.readyState >= 2
MediaReady(m) ==
    IF m.tag = "img" THEN m.state # "pending" ELSE m.state = "loaded"

\* every image and video of the view is looked at: for one that is ready
\* the pinned view is scrolled, any other one gets two more listeners
\* (load and error, loadeddata and loadedmetadata)
initMediaLoadFix(s) ==
    LET ready == {i \in DOMAIN s.mediaEls : MediaReady(s.mediaEls[i])}
        s1 == [s EXCEPT !.mediaEls =
                  [i \in DOMAIN s.mediaEls |->
                      IF i \in ready THEN s.mediaEls[i]
                      ELSE [s.mediaEls[i] EXCEPT !.scans = @ + 1]]]
    IN ScrollIfPinned(s1, Cardinality(ready))

\* the callback of the MutationObserver of createMediaObserver, run after a
\* handler that added element nodes to the view
MediaObserver(s) ==
    updateScrollState(ScrollIfPinned(initMediaLoadFix(s), 1))

\* messagesEl.insertAdjacentHTML("beforeend", html)
InsertInView(s, html) ==
    [s EXCEPT !.messagesEl = Append(@, html),
              !.mediaEls = @ \o MediaOfEmbeds(html.embeds),
              !.added = TRUE]

\* messagesEl.innerHTML = list.join("")
ReplaceView(s, list) ==
    [s EXCEPT !.messagesEl = list,
              !.mediaEls = FreshMedia(list),
              !.added = @ \/ list # <<>>]

-----------------------------------------------------------------------------
(* messages.js *)

_normalizeText(t) == Trim(Coalesce(t, ""))

\* while (buffer.length && buffer[0].ts < cutoff) buffer.shift()
RECURSIVE PurgeTTL(_, _)
PurgeTTL(buf, cutoff) ==
    IF Len(buf) > 0 /\ buf[1].ts < cutoff THEN PurgeTTL(Tail(buf), cutoff)
    ELSE buf

\* faulty variant: the newest entries are the ones dropped
PurgeSize_KeepOldest(buf) ==
    IF Len(buf) > LOCAL_ECHO_MAX
    THEN SubSeq(buf, 1, LOCAL_ECHO_MAX)
    ELSE buf

\* if (length > MAX) splice(0, length - MAX)
PurgeSize(buf) ==
    IF Len(buf) > LOCAL_ECHO_MAX
    THEN SubSeq(buf, Len(buf) - LOCAL_ECHO_MAX + 1, Len(buf))
    ELSE buf

\* faulty variant: the size purge is left out
rememberLocalEcho_NoSizePurge(s, room, text) ==
    LET entry == [room |-> OrElse(room, ""),
                  text |-> _normalizeText(text),
                  ts |-> s.now]
        pushed == Append(s.LOCAL_ECHO_BUFFER, entry)
    IN [s EXCEPT !.LOCAL_ECHO_BUFFER = PurgeTTL(pushed, s.now - LOCAL_ECHO_TTL_MS)]

rememberLocalEcho(s, room, text) ==
    LET entry == [room |-> OrElse(room, ""),
                  text |-> _normalizeText(text),
                  ts |-> s.now]
        pushed == Append(s.LOCAL_ECHO_BUFFER, entry)
    IN [s EXCEPT !.LOCAL_ECHO_BUFFER =
           PurgeTTL(PurgeSize(pushed), s.now - LOCAL_ECHO_TTL_MS)]

\* the entry the backwards scan finds: the last one with this room and text
EchoMatch(buf, r, incomingText) ==
    LET hits == {i \in 1..Len(buf) :
                    buf[i].room = r /\ buf[i].text = incomingText}
    IN IF hits = {} THEN 0 ELSE CHOOSE i \in hits : \A j \in hits : j <= i

\* returns the answer (dup) and the state it leaves (st)
isServerEchoDuplicate(s, room, data) ==
    LET r == OrElse(room, "")
        incomingText == _normalizeText(Coalesce(Coalesce(data.original, data.translated), ""))
    IN IF incomingText = "" THEN [dup |-> FALSE, st |-> s]
       ELSE LET purged == PurgeTTL(s.LOCAL_ECHO_BUFFER, s.now - LOCAL_ECHO_TTL_MS)
                i == EchoMatch(purged, r, incomingText)
            IN IF i > 0
               THEN [dup |-> TRUE,
                     st |-> [s EXCEPT !.LOCAL_ECHO_BUFFER =
                               SubSeq(purged, 1, i - 1) \o SubSeq(purged, i + 1, Len(purged))]]
               ELSE [dup |-> FALSE, st |-> [s EXCEPT !.LOCAL_ECHO_BUFFER = purged]]

\* const arr = ensureRoomArray(room); arr.push(html);
\* if (room === currentRoom) messagesEl.insertAdjacentHTML("beforeend", html)
\* faulty variant: unshift in place of push
PushArtifact_Prepend(s, room, html) ==
    LET s1 == ensureRoomArray(s, room)
        s2 == [s1 EXCEPT !.roomMessages[room] = <<html>> \o @]
    IN IF room = s2.currentRoom
       THEN [s2 EXCEPT !.messagesEl = <<html>> \o @,
                       !.mediaEls = MediaOfEmbeds(html.embeds) \o @,
                       !.added = TRUE]
       ELSE s2

PushArtifact(s, room, html) ==
    LET s1 == ensureRoomArray(s, room)
        s2 == [s1 EXCEPT !.roomMessages[room] = Append(@, html)]
    IN IF room = s2.currentRoom THEN InsertInView(s2, html) ELSE s2

\* if (room === currentRoom) { ...; scrollToBottom(messagesEl) }
ScrollShown(s, room) ==
    IF room = s.currentRoom THEN scrollToBottom(s) ELSE s

\* if (room === currentRoom) { ...; scrollToBottom(messagesEl);
\* initMediaLoadFix(messagesEl) }
ScrollAndScanShown(s, room) ==
    IF room = s.currentRoom THEN initMediaLoadFix(scrollToBottom(s)) ELSE s

appendLocalMessage(s, room, pseudo, text, isSelf, original, translated) ==
    LET shown == OrElse(translated, text)
        s1 == rememberLocalEcho(s, room, Coalesce(original, text))
        html == renderHTMLMessage(pseudo, shown, Coalesce(original, text),
                                  s.now \div 1000, isSelf, FALSE, FALSE, s.now)
    IN IF html = TypeError THEN s1
       ELSE ScrollAndScanShown(PushArtifact(s1, room, html), room)

\* element.textContent = msg; element.outerHTML
TextChar(c) ==
    IF c = "&" THEN "&amp;"
    ELSE IF c = "<" THEN "&lt;"
    ELSE IF c = ">" THEN "&gt;"
    ELSE c

RECURSIVE TextAll(_)
TextAll(s) ==
    IF Len(s) = 0 THEN ""
    ELSE TextChar(SubSeq(s, 1, 1)) \o TextAll(SubSeq(s, 2, Len(s)))

TextTable == [t \in KnownStrings |-> TextAll(t)]

TextContent(s) == IF s \in KnownStrings THEN TextTable[s] ELSE TextAll(s)

SystemArtifact(msg) ==
    [kind |-> "system", self |-> FALSE, time |-> "",
     user |-> [name |-> "", badge |-> ""],
     body |-> TextContent(msg), orig |-> "", lang |-> "", embeds |-> <<>>]

ActionArtifact(author, content) ==
    [kind |-> "action", self |-> FALSE, time |-> "",
     user |-> [name |-> "", badge |-> ""],
     body |-> TextContent("* " \o author \o " " \o content), orig |-> "", lang |-> "",
     embeds |-> <<>>]

\* the author is placed in the markup as it is
renderCodeHTML(pseudo, lang, content, timestamp, isSelf, nowMs) ==
    [kind |-> "code", self |-> isSelf,
     time |-> TimeLabel(TimeOf(timestamp, nowMs)),
     user |-> [name |-> pseudo, badge |-> ""],
     body |-> escapeHTML(OrElse(content, "")), orig |-> "",
     lang |-> ToLowerCase(OrElse(lang, "txt")), embeds |-> <<>>]

appendSystemMessage(s, room, msg) ==
    ScrollShown(PushArtifact(s, room, SystemArtifact(msg)), room)

appendActionMessage(s, room, author, content) ==
    ScrollShown(PushArtifact(s, room, ActionArtifact(author, content)), room)

\* in the room shown the scroll is forced, two frames later
appendCodeMessage(s, room, pseudo, lang, content, timestamp, isSelf) ==
    LET s1 == PushArtifact(s, room,
                  renderCodeHTML(pseudo, lang, content, timestamp, isSelf, s.now))
    IN IF room = s1.currentRoom
       THEN DoubleFrame(s1, "frame:force", "appendCodeMessage")
       ELSE s1

-----------------------------------------------------------------------------
(* tabs.js *)

\* socket.emit(ev, payload)
Emit(s, ev, room, to, msg) ==
    [s EXCEPT !.emitted = Append(@, [ev |-> ev, room |-> room, to |-> to, msg |-> msg])]

\* faulty variant: the label is the room key, whatever the peer
TabLabel_RoomKey(s, roomName) == roomName

TabLabel(s, roomName) ==
    IF StartsWith(roomName, "@mp_") /\ ~Falsy(getMpPeer(s, roomName))
    THEN "@" \o s.myPseudo \o "_" \o getMpPeer(s, roomName)
    ELSE roomName

\* one button per joined room; "#general" gets no close button
renderTabs(s) ==
    [s EXCEPT !.tabsEl =
        [i \in 1..Len(s.joinedRooms) |->
            [room |-> s.joinedRooms[i],
             label |-> TabLabel(s, s.joinedRooms[i]),
             closable |-> s.joinedRooms[i] # "#general",
             active |-> s.joinedRooms[i] = s.currentRoom,
             blink |-> FALSE]]]

\* the buttons of room get or lose the class "blink"
SetBlink(s, room, on) ==
    [s EXCEPT !.tabsEl =
        [i \in 1..Len(s.tabsEl) |->
            IF s.tabsEl[i].room = room
            THEN [s.tabsEl[i] EXCEPT !.blink = on]
            ELSE s.tabsEl[i]]]

\* setTimeout(..., 80): the callback is queued, it runs later
startTabBlink(s, room) ==
    [s EXCEPT !.blinkTimers = Append(@, room)]

\* the callback startTabBlink queued first: the buttons of its room that
\* exist now get the class
BlinkCallback(s) ==
    [SetBlink(s, Head(s.blinkTimers), TRUE) EXCEPT !.blinkTimers = Tail(@)]

\* scrollToBottom(messagesEl); initMediaLoadFix(messagesEl); and two frames
\* later messagesEl.scrollTop = messagesEl.scrollHeight
SwitchScroll(s) ==
    DoubleFrame(initMediaLoadFix(scrollToBottom(s)), "frame:write", "switchTo")

\* faulty variant: the log of the room is added to what the view shows
switchTo_AppendView(s, room) ==
    LET s1 == [setCurrentRoom(s, room) EXCEPT !.switchedTo = room]
        s2 == SwitchScroll([s1 EXCEPT !.messagesEl = s.messagesEl \o LogOf(s1, room),
                                      !.mediaEls = @ \o FreshMedia(LogOf(s1, room)),
                                      !.added = @ \/ LogOf(s1, room) # <<>>])
        s3 == IF StartsWith(room, "@")
              THEN Emit(s2, "switch_private", room, "", "")
              ELSE s2
    IN renderTabs(s3)

\* faulty variant: no notification when the room is the current one already
switchTo_QuietWhenCurrent(s, room) ==
    LET s1 == [setCurrentRoom(s, room) EXCEPT !.switchedTo = room]
        s2 == SwitchScroll(ReplaceView(s1, LogOf(s1, room)))
        s3 == IF StartsWith(room, "@") /\ room # s.currentRoom
              THEN Emit(s2, "switch_private", room, "", "")
              ELSE s2
    IN renderTabs(s3)

switchTo(s, room) ==
    LET s1 == [setCurrentRoom(s, room) EXCEPT !.switchedTo = room]
        s2 == SwitchScroll(ReplaceView(s1, LogOf(s1, room)))
        s3 == IF StartsWith(room, "@")
              THEN Emit(s2, "switch_private", room, "", "")
              ELSE s2
    IN renderTabs(s3)

\* click on the tab of roomName
TabClickHandler(s, roomName) ==
    LET s0 == SetBlink(s, roomName, FALSE)
    IN IF roomName = s0.currentRoom THEN s0
       ELSE IF StartsWith(roomName, "@") THEN switchTo(s0, roomName)
       ELSE Emit(switchTo(s0, roomName), "join", roomName, "", "")

\* click on the close button of the tab of roomToClose
\* faulty variant: the fallback to "#general" asks for no join
TabCloseHandler_NoJoin(s, roomToClose) ==
    LET s1 == [s EXCEPT !.joinedRooms = SpliceFirst(@, roomToClose)]
    IN IF s1.currentRoom = roomToClose
       THEN switchTo(s1, "#general")
       ELSE renderTabs(s1)

TabCloseHandler(s, roomToClose) ==
    LET s1 == [s EXCEPT !.joinedRooms = SpliceFirst(@, roomToClose)]
    IN IF s1.currentRoom = roomToClose
       THEN Emit(switchTo(s1, "#general"), "join", "#general", "", "")
       ELSE renderTabs(s1)

-----------------------------------------------------------------------------
(* messages.js: incoming messages and history *)

\* faulty variant: only the is_private flag makes a message private
IsPrivateData_FlagOnly(room, data) == data.is_private

IsPrivateData(room, data) ==
    data.is_private \/ (~Falsy(room) /\ StartsWith(room, "@"))

\* faulty variant: the artifact is appended first and taken away again
\* when the message turns out to be a duplicate
handleIncomingSteps_CheckAfterAppend(s, data) ==
    LET room == OrElse(data.room, OrElse(s.currentRoom, "#general"))
        isPrivate == IsPrivateData(room, data)
        s1 == IF isPrivate /\ ~Falsy(data.with) /\ ~Falsy(room)
              THEN setMpPeer(s, room, data.with) ELSE s
        echo == isServerEchoDuplicate(s1, room, data)
        s2 == IF isPrivate THEN s1 ELSE echo.st
        s2a == IF isPrivate THEN renderTabs(addJoinedRoom(s2, room)) ELSE s2
        s3 == IF isPrivate /\ room # s2a.currentRoom
              THEN startTabBlink(s2a, room) ELSE s2a
        html == renderHTMLMessage(data.pseudo, data.translated, data.original,
                                  data.timestamp, FALSE, data.is_admin,
                                  data.is_mod, s.now)
    IN IF html = TypeError THEN <<s1, s2, s2a, s3>>
       ELSE IF ~isPrivate /\ data.pseudo = s1.myPseudo
       THEN <<s1, PushArtifact(s1, room, html), s1>>
       ELSE IF ~isPrivate /\ echo.dup
       THEN <<s1, PushArtifact(s1, room, html), echo.st>>
       ELSE <<s1, s2, s2a, s3, ScrollAndScanShown(PushArtifact(s3, room, html), room),
              renderTabs(ScrollAndScanShown(PushArtifact(s3, room, html), room))>>

\* the states the handler goes through, one after each of its statements
\* that changes something; the last one is the state it leaves
handleIncomingSteps(s, data) ==
    LET room == OrElse(data.room, OrElse(s.currentRoom, "#general"))
        isPrivate == IsPrivateData(room, data)
        s1 == IF isPrivate /\ ~Falsy(data.with) /\ ~Falsy(room)
              THEN setMpPeer(s, room, data.with) ELSE s
        echo == isServerEchoDuplicate(s1, room, data)
    IN IF ~isPrivate /\ data.pseudo = s1.myPseudo THEN <<s1>>
       ELSE IF ~isPrivate /\ echo.dup THEN <<s1, echo.st>>
       ELSE LET s2 == IF isPrivate THEN s1 ELSE echo.st
                s2a == IF isPrivate THEN renderTabs(addJoinedRoom(s2, room)) ELSE s2
                s3 == IF isPrivate /\ room # s2a.currentRoom
                      THEN startTabBlink(s2a, room) ELSE s2a
                html == renderHTMLMessage(data.pseudo, data.translated, data.original,
                                          data.timestamp, FALSE, data.is_admin,
                                          data.is_mod, s.now)
            IN IF html = TypeError THEN <<s1, s2, s2a, s3>>
               ELSE <<s1, s2, s2a, s3,
                      ScrollAndScanShown(PushArtifact(s3, room, html), room),
                      renderTabs(ScrollAndScanShown(PushArtifact(s3, room, html), room))>>

handleIncomingMessage(s, data) ==
    LET steps == handleIncomingSteps(s, data)
    IN steps[Len(steps)]

HistoryArtifact(m, nowMs) ==
    LET type == OrElse(m.type, "text")
    IN IF type = "action"
       THEN ActionArtifact(OrElse(m.pseudo, "Anonymous"), OrElse(m.content, ""))
       ELSE IF type = "code"
       THEN renderCodeHTML(OrElse(m.pseudo, "Anonymous"), OrElse(m.lang, "txt"),
                           OrElse(m.content, ""), m.timestamp, FALSE, nowMs)
       ELSE renderHTMLMessage(m.pseudo, m.translated, m.original, m.timestamp,
                              FALSE, m.is_admin, m.is_mod, nowMs)

\* faulty variant: the view keeps what it showed
loadRoomHistory_NoRender(s, room, messages) ==
    LET list == [i \in 1..Len(messages) |-> HistoryArtifact(messages[i], s.now)]
    IN IF \E i \in 1..Len(list) : list[i] = TypeError THEN s
       ELSE [s EXCEPT !.roomMessages = Put(@, room, list)]

loadRoomHistory(s, room, messages) ==
    LET list == [i \in 1..Len(messages) |-> HistoryArtifact(messages[i], s.now)]
        s1 == [s EXCEPT !.roomMessages = Put(@, room, list)]
    IN IF \E i \in 1..Len(list) : list[i] = TypeError THEN s
       ELSE IF room = s1.currentRoom
       THEN initMediaLoadFix(scrollToBottom(ReplaceView(s1, list)))
       ELSE s1

-----------------------------------------------------------------------------
(* mp.js *)

handleMpCommand(s, cmd, currentRoomValue) ==
    LET parts == Split(Trim(cmd))
    IN IF Len(parts) < 3
       THEN appendSystemMessage(s, OrElse(currentRoomValue, "#general"),
                                "Usage: /mp username message")
       ELSE LET target == parts[2]
                text == Trim(SliceFrom(cmd, IndexOf(cmd, target) + Len(target)))
            IN IF Falsy(target) \/ Falsy(text) THEN s
               ELSE Emit(Emit(s, "open_private", "", target, ""),
                         "private_message", "", target, text)

onOpenPrivateRoom(s, data) ==
    IF Falsy(data.room) THEN s
    ELSE LET s1 == IF ~Falsy(data.with) THEN setMpPeer(s, data.room, data.with) ELSE s
             s2 == addJoinedRoom(s1, data.room)
         IN switchTo(renderTabs(s2), data.room)

-----------------------------------------------------------------------------
(* sockets.js: the handlers *)

OnJoinedRoom(s, color, room) ==
    LET s1 == IF ~Falsy(color) /\ ~s.appVisible
              THEN [s EXCEPT !.appVisible = TRUE] ELSE s
    IN IF Falsy(room) THEN s1
       ELSE renderTabs(switchTo(addJoinedRoom(s1, room), room))

\* faulty variant: a private room that is not joined is taken in like any room
OnSwitchedRoom_KeepGhost(s, room) ==
    renderTabs(switchTo(addJoinedRoom(s, room), room))

OnSwitchedRoom(s, room) ==
    IF ~InSeq(s.joinedRooms, room) /\ ~Falsy(room) /\ StartsWith(room, "@")
    THEN renderTabs(cleanupMpRoom(s, room))
    ELSE renderTabs(switchTo(addJoinedRoom(s, room), room))

OnUserKicked(s, room, reason) ==
    LET s1 == appendSystemMessage(s, room, OrElse(reason, "You were kicked."))
        s2 == [s1 EXCEPT !.joinedRooms = SpliceFirst(@, room)]
        s3 == IF s2.currentRoom = room
              THEN Emit(switchTo(s2, "#general"), "join", "#general", "", "")
              ELSE s2
    IN renderTabs(s3)

OnRoomHistory(s, room, messages) == loadRoomHistory(s, room, messages)

\* cleanupMpRoom + renderTabs + switchTo("#general") + join
GhostFallback(s, room) ==
    Emit(switchTo(renderTabs(cleanupMpRoom(s, room)), "#general"),
         "join", "#general", "", "")

OnSystemMessage(s, room, msg) ==
    LET s1 == appendSystemMessage(s, OrElse(room, "#general"), msg)
    IN IF ~Falsy(room) /\ StartsWith(room, "@")
          /\ Includes(ToLowerCase(msg), "no longer exists")
       THEN GhostFallback(s1, room)
       ELSE s1

OnActionMessage(s, room, author, content) ==
    appendActionMessage(s, OrElse(room, s.currentRoom), author, content)

OnCodeMessage(s, room, pseudo, lang, content, timestamp) ==
    appendCodeMessage(s, OrElse(room, s.currentRoom), pseudo, lang, content,
                      timestamp, pseudo = s.myPseudo)

OnIdentityUpdate(s, pseudo) ==
    IF Falsy(pseudo) THEN s ELSE setMyPseudo(s, pseudo)

\* faulty variant: the fallback is taken whatever room is shown
OnRoomDeleted_AlwaysFallback(s, room) ==
    LET s1 == [s EXCEPT !.joinedRooms = SpliceFirst(@, room)]
    IN renderTabs(Emit(switchTo(s1, "#general"), "join", "#general", "", ""))

OnRoomDeleted(s, room) ==
    LET s1 == [s EXCEPT !.joinedRooms = SpliceFirst(@, room)]
        s2 == IF s1.currentRoom = room
              THEN Emit(switchTo(s1, "#general"), "join", "#general", "", "")
              ELSE s1
    IN renderTabs(s2)

OnRoomCreateError(s, error) == appendSystemMessage(s, s.currentRoom, error)

resetTextarea(s) == [s EXCEPT !.msgInput = ""]

\* raw is msgInput.value; every path ends with resetTextarea()
sendMessage(s0, raw) ==
    LET s == resetTextarea(s0)
        msg == Trim(raw)
        room == OrElse(s.currentRoom, "#general")
    IN IF Falsy(msg) THEN s
       ELSE IF StartsWith(msg, "/mp ") THEN handleMpCommand(s, msg, room)
       ELSE IF StartsWith(room, "@")
       THEN LET target == getMpPeer(s, room)
            IN IF Falsy(target)
               THEN GhostFallback(
                        appendSystemMessage(s, room,
                            "This private conversation is no longer available."),
                        room)
               ELSE Emit(s, "private_message", "", target, msg)
       ELSE Emit(appendLocalMessage(s, room, s.myPseudo, msg, TRUE, msg, msg),
                 "send_message", "", "", msg)

OnReceiveMessage(s, data) == handleIncomingMessage(s, data)

KnownReasons == {"spam_kick", "spam_ban", "spam_perma"}

\* the text of the alert
DisconnectMessage(reason) ==
    IF reason = "spam_kick" THEN "You were kicked for spam."
    ELSE IF reason = "spam_ban" THEN "You were banned for 10 minutes (spam)."
    ELSE IF reason = "spam_perma" THEN "You were permanently banned for spam."
    ELSE "You were disconnected by the server."

\* faulty variant: only the reasons the handler has a text for end the session
OnForceDisconnect_KnownReasonsOnly(s, reason) ==
    IF OrElse(reason, "disconnected") \in KnownReasons
    THEN [s EXCEPT !.connected = FALSE, !.appVisible = FALSE, !.msgInput = ""]
    ELSE s

\* force_disconnect: reason is data?.reason, undefined when data or its
\* field is missing; socket.disconnect(), #app hidden, #login shown,
\* the input emptied
OnForceDisconnect(s, reason) ==
    [s EXCEPT !.connected = FALSE, !.appVisible = FALSE, !.msgInput = ""]

OnOpenPrivateRoom(s, data) == onOpenPrivateRoom(s, data)

-----------------------------------------------------------------------------
(* The state machine *)

PublicRooms == {"#general", "#dev"}
PrivateRooms == {"@mp_1"}
Rooms == PublicRooms \cup PrivateRooms
Peers == {"bob", "eve"}
Pseudos == {"me", "me_2"}

\* the module-level state as one record
Cur ==
    [myPseudo |-> myPseudo, joinedRooms |-> joinedRooms,
     currentRoom |-> currentRoom, roomMessages |-> roomMessages,
     mpPeerByRoom |-> mpPeerByRoom, LOCAL_ECHO_BUFFER |-> LOCAL_ECHO_BUFFER,
     messagesEl |-> messagesEl, tabsEl |-> tabsEl,
     blinkTimers |-> blinkTimers, emitted |-> emitted,
     now |-> now, appVisible |-> appVisible, msgInput |-> msgInput,
     connected |-> connected, switchedTo |-> switchedTo,
     userIsAtBottom |-> userIsAtBottom, scrollTop |-> scrollTop,
     scrollTimers |-> scrollTimers, mediaEls |-> mediaEls, added |-> FALSE]

\* the state a handler starts from: nothing emitted yet, no room switched to
Start == [Cur EXCEPT !.emitted = <<>>, !.switchedTo = Undef]

RECURSIVE SumLen(_, _)
SumLen(f, keys) ==
    IF keys = {} THEN 0
    ELSE LET k == CHOOSE x \in keys : TRUE
         IN Len(f[k]) + SumLen(f, keys \ {k})

\* number of artifacts in all stored logs
Stored(s) == SumLen(s.roomMessages, DOMAIN s.roomMessages)

WithinBounds(s) ==
    /\ Stored(s) <= MaxStored
    /\ Len(s.LOCAL_ECHO_BUFFER) <= MaxInflight
    /\ Len(s.blinkTimers) <= MaxBlinkTimers
    /\ Undef \notin DOMAIN s.roomMessages

\* the event being handled, with what the state was when it arrived
Event(op, room, text, pseudo, own) ==
    [op |-> op, room |-> room, text |-> text, pseudo |-> pseudo, own |-> own,
     from |-> currentRoom, wasJoined |-> InSeq(joinedRooms, room)]

\* the handler has run to completion and left state s, the scroll state
\* of the view aside
CommitState(s, ev) ==
    /\ WithinBounds(s)
    /\ myPseudo' = s.myPseudo
    /\ joinedRooms' = s.joinedRooms
    /\ currentRoom' = s.currentRoom
    /\ roomMessages' = s.roomMessages
    /\ mpPeerByRoom' = s.mpPeerByRoom
    /\ LOCAL_ECHO_BUFFER' = s.LOCAL_ECHO_BUFFER
    /\ messagesEl' = s.messagesEl
    /\ tabsEl' = s.tabsEl
    /\ blinkTimers' = s.blinkTimers
    /\ emitted' = s.emitted
    /\ appVisible' = s.appVisible
    /\ msgInput' = s.msgInput
    /\ connected' = s.connected
    /\ switchedTo' = s.switchedTo
    /\ lastEvent' = ev
    /\ UNCHANGED tsVars

\* Where nobody scrolls the view it stays pinned at its end, and the scroll
\* callbacks a handler requests have run before the next event (the last
\* one after 120 ms): they leave the scroll state as it was before the
\* handler. SpecScroll follows them one by one.
Commit(s, ev) ==
    /\ CommitState(s, ev)
    /\ UNCHANGED scrollVars

Init ==
    /\ myPseudo = "me"
    /\ joinedRooms = <<>>
    /\ currentRoom = Undef
    /\ roomMessages = EmptyMap
    /\ mpPeerByRoom = EmptyMap
    /\ LOCAL_ECHO_BUFFER = <<>>
    /\ messagesEl = <<>>
    /\ tabsEl = <<>>
    /\ blinkTimers = <<>>
    /\ emitted = <<>>
    /\ appVisible = FALSE
    /\ msgInput = ""
    /\ connected = TRUE
    /\ switchedTo = Undef
    /\ now = 0
    /\ inflight = <<>>
    /\ nCalls = 0
    /\ resolvers = <<>>
    /\ timer = 0
    /\ timeouts = {}
    /\ requests = <<>>
    /\ errorBox = ""
    /\ userIsAtBottom = TRUE
    /\ scrollTop = 0
    /\ scrollTimers = <<>>
    /\ mediaEls = <<>>
    /\ lastEvent = Event("init", Undef, Undef, Undef, FALSE)

(* inbound events *)

JoinedRoom(room) ==
    /\ appVisible \/ room = "#general"
    /\ Commit(OnJoinedRoom(Start, "#7aa2f7", room),
              Event("joined_room", room, Undef, Undef, FALSE))
    /\ UNCHANGED <<now, inflight, nCalls>>

SwitchedRoom(room) ==
    /\ appVisible
    /\ Commit(OnSwitchedRoom(Start, room), Event("switched_room", room, Undef, Undef, FALSE))
    /\ UNCHANGED <<now, inflight, nCalls>>

UserKicked(room) ==
    /\ appVisible
    /\ Commit(OnUserKicked(Start, room, Undef), Event("user_kicked", room, Undef, Undef, FALSE))
    /\ UNCHANGED <<now, inflight, nCalls>>

RoomDeleted(room) ==
    /\ appVisible
    /\ Commit(OnRoomDeleted(Start, room), Event("room_deleted", room, Undef, Undef, FALSE))
    /\ UNCHANGED <<now, inflight, nCalls>>

SystemMessage(room, msg) ==
    /\ appVisible
    /\ Commit(OnSystemMessage(Start, room, msg), Event("system_message", room, msg, Undef, FALSE))
    /\ UNCHANGED <<now, inflight, nCalls>>

ActionMessage(room) ==
    /\ appVisible
    /\ Commit(OnActionMessage(Start, room, "bob", "waves"),
              Event("action_message", room, "waves", "bob", FALSE))
    /\ UNCHANGED <<now, inflight, nCalls>>

CodeMessage(room) ==
    /\ appVisible
    /\ Commit(OnCodeMessage(Start, room, "bob", "JS", "x<1", 0),
              Event("code_message", room, "x<1", "bob", FALSE))
    /\ UNCHANGED <<now, inflight, nCalls>>

IdentityUpdate(pseudo) ==
    /\ appVisible
    /\ pseudo # myPseudo
    /\ Commit(OnIdentityUpdate(Start, pseudo), Event("identity_update", Undef, Undef, pseudo, FALSE))
    /\ UNCHANGED <<now, inflight, nCalls>>

RoomCreateError ==
    /\ appVisible
    /\ Commit(OnRoomCreateError(Start, "Room already exists"),
              Event("room_create_error", currentRoom, "Room already exists", Undef, FALSE))
    /\ UNCHANGED <<now, inflight, nCalls>>

OpenPrivateRoom(room, peer) ==
    /\ appVisible
    /\ Commit(OnOpenPrivateRoom(Start, [room |-> room, with |-> peer]),
              Event("open_private_room", room, Undef, peer, FALSE))
    /\ UNCHANGED <<now, inflight, nCalls>>

\* a message record of receive_message and of room_history
Message(room, pseudo, translated, original, peer) ==
    [room |-> room, pseudo |-> pseudo, translated |-> translated,
     original |-> original, with |-> peer, is_private |-> FALSE,
     timestamp |-> 0, is_admin |-> FALSE, is_mod |-> FALSE,
     type |-> Undef, content |-> Undef, lang |-> Undef]

Histories ==
    {<<>>,
     <<Message(Undef, "bob", "a", "a", Undef)>>,
     <<Message(Undef, "bob", "a", "a", Undef),
       [Message(Undef, "eve", Undef, Undef, Undef) EXCEPT !.type = "action", !.content = "waves"]>>}

RoomHistory(room, messages) ==
    /\ appVisible
    /\ Commit(OnRoomHistory(Start, room, messages),
              Event("room_history", room, Undef, Undef, FALSE))
    /\ UNCHANGED <<now, inflight, nCalls>>

\* a message of somebody else, or one that carries the local name
ReceiveOther(room, pseudo, text, peer) ==
    /\ appVisible
    /\ Commit(OnReceiveMessage(Start, Message(room, pseudo, text, text, peer)),
              Event("receive_message", room, text, pseudo, FALSE))
    /\ UNCHANGED <<now, inflight, nCalls>>

\* the server broadcasts the oldest own message not yet echoed, under the
\* name the server has for the sender
ReceiveEcho(pseudo) ==
    /\ appVisible
    /\ inflight # <<>>
    /\ Commit(OnReceiveMessage(Start,
                 Message(Head(inflight).room, pseudo, Head(inflight).text,
                         Head(inflight).text, Undef)),
              Event("receive_message", Head(inflight).room, Head(inflight).text, pseudo, TRUE))
    /\ inflight' = Tail(inflight)
    /\ UNCHANGED <<now, nCalls>>

(* user actions *)

TabClick(i) ==
    /\ appVisible
    /\ Commit(TabClickHandler(Start, tabsEl[i].room),
              Event("tab_click", tabsEl[i].room, Undef, Undef, FALSE))
    /\ UNCHANGED <<now, inflight, nCalls>>

TabClose(i) ==
    /\ appVisible
    /\ tabsEl[i].closable
    /\ Commit(TabCloseHandler(Start, tabsEl[i].room),
              Event("tab_close", tabsEl[i].room, Undef, Undef, FALSE))
    /\ UNCHANGED <<now, inflight, nCalls>>

\* the send_message the handler emitted, as the server will echo it: the
\* server knows the sender to be in the room the client showed
Sent(s, room) ==
    IF \E i \in 1..Len(s.emitted) : s.emitted[i].ev = "send_message"
    THEN <<[room |-> room, text |-> s.emitted[Len(s.emitted)].msg, ts |-> s.now]>>
    ELSE <<>>

Send(raw) ==
    /\ appVisible
    /\ Commit(sendMessage(Start, raw),
              Event("send", OrElse(currentRoom, "#general"), raw, myPseudo, FALSE))
    /\ inflight' = inflight \o Sent(sendMessage(Start, raw), OrElse(currentRoom, "#general"))
    /\ Len(inflight') <= MaxInflight
    /\ UNCHANGED <<now, nCalls>>

\* the user types text in the input without sending it
TypeInput(text) ==
    /\ appVisible
    /\ Commit([Start EXCEPT !.msgInput = text],
              Event("type", Undef, text, Undef, FALSE))
    /\ UNCHANGED <<now, inflight, nCalls>>

\* the event records the alert text (room), what the input held (text),
\* the reason (pseudo) and whether the main view was shown (own)
ForceDisconnect(reason) ==
    /\ connected
    /\ Commit(OnForceDisconnect(Start, reason),
              Event("force_disconnect", DisconnectMessage(OrElse(reason, "disconnected")),
                    msgInput, reason, appVisible))
    /\ UNCHANGED <<now, inflight, nCalls>>

\* 80 ms after a startTabBlink call its callback runs
BlinkFire ==
    /\ blinkTimers # <<>>
    /\ Commit(BlinkCallback(Start),
              Event("blink", Head(blinkTimers), Undef, Undef, FALSE))
    /\ UNCHANGED <<now, inflight, nCalls>>

\* events are further apart than the 80 ms of startTabBlink: a queued
\* callback runs before the next event is handled
TimersRun == blinkTimers = <<>>

(* time *)

TickSteps == {LOCAL_ECHO_TTL_MS, LOCAL_ECHO_TTL_MS + 1}

Tick(d) ==
    /\ now + d <= MaxTicks * (LOCAL_ECHO_TTL_MS + 1)
    /\ now' = now + d
    /\ lastEvent' = Event("tick", Undef, Undef, Undef, FALSE)
    /\ UNCHANGED <<myPseudo, joinedRooms, currentRoom, roomMessages, mpPeerByRoom,
                   LOCAL_ECHO_BUFFER, messagesEl, tabsEl, blinkTimers, emitted, appVisible, msgInput, connected,
                   switchedTo, inflight, nCalls, tsVars, scrollVars>>

-----------------------------------------------------------------------------
(* Rooms and tabs: the switch engine and the dispatcher *)

GhostNotice == "Conversation No Longer Exists"

Next ==
    \/ TimersRun /\ \E room \in PublicRooms : JoinedRoom(room)
    \/ TimersRun /\ \E room \in Rooms : SwitchedRoom(room)
    \/ TimersRun /\ \E room \in PublicRooms : UserKicked(room)
    \/ TimersRun /\ \E room \in PublicRooms : RoomDeleted(room)
    \/ TimersRun /\ \E room \in PrivateRooms : SystemMessage(room, GhostNotice)
    \/ TimersRun /\ \E room \in PrivateRooms, peer \in {"bob", Undef} : OpenPrivateRoom(room, peer)
    \/ TimersRun /\ \E room \in PrivateRooms, peer \in {"bob", Undef} :
             ReceiveOther(room, "bob", "a", peer)
    \/ TimersRun /\ \E pseudo \in {myPseudo} : ReceiveEcho(pseudo)
    \/ TimersRun /\ \E i \in DOMAIN tabsEl : TabClick(i)
    \/ TimersRun /\ \E i \in DOMAIN tabsEl : TabClose(i)
    \/ TimersRun /\ \E raw \in {"a", "/mp bob hi"} : Send(raw)
    \/ BlinkFire

Spec == Init /\ [][Next]_vars

-----------------------------------------------------------------------------
(* Stored logs and the visible view *)

NextLog ==
    \/ TimersRun /\ \E room \in PublicRooms : JoinedRoom(room)
    \/ TimersRun /\ \E room \in PrivateRooms, peer \in Peers : OpenPrivateRoom(room, peer)
    \/ TimersRun /\ \E i \in DOMAIN tabsEl : TabClick(i)
    \/ TimersRun /\ \E room \in PrivateRooms : SystemMessage(room, GhostNotice)
    \/ TimersRun /\ \E room \in {"#dev", Undef} : SystemMessage(room, "welcome")
    \/ TimersRun /\ \E room \in {"#dev", Undef} : ActionMessage(room)
    \/ TimersRun /\ \E room \in {"@mp_1", Undef} : CodeMessage(room)
    \/ TimersRun /\ \E room \in PublicRooms, messages \in Histories : RoomHistory(room, messages)
    \/ TimersRun /\ \E room \in {"#general", "@mp_1"} : ReceiveOther(room, "bob", "a", Undef)
    \/ BlinkFire

SpecLog == Init /\ [][NextLog]_vars

-----------------------------------------------------------------------------
(* Local send against server echo *)

NextDedup ==
    \/ \E room \in {"#general"} : JoinedRoom(room)
    \/ \E raw \in {" a "} : Send(raw)
    \/ \E pseudo \in Pseudos : ReceiveEcho(pseudo)
    \/ \E room \in {"#general"}, pseudo \in {"bob"}, text \in {"a ", ""} :
          ReceiveOther(room, pseudo, text, Undef)
    \/ \E pseudo \in Pseudos : IdentityUpdate(pseudo)
    \/ \E d \in TickSteps : Tick(d)

SpecDedup == Init /\ [][NextDedup]_vars

-----------------------------------------------------------------------------
(* The echo buffer on its own: calls of rememberLocalEcho and of
   isServerEchoDuplicate, interleaved with the clock *)

\* the n-th text handed to rememberLocalEcho
EchoText(n) == "m" \o ToString(n)

\* what receive_message may carry as original text
IncomingTexts == {Undef, "", " m1 ", "m27", "zz"}

BufRemember ==
    /\ nCalls < MaxRemember
    /\ LOCAL_ECHO_BUFFER' =
          rememberLocalEcho(Cur, "#general", EchoText(nCalls + 1)).LOCAL_ECHO_BUFFER
    /\ nCalls' = nCalls + 1
    /\ lastEvent' = Event("rememberLocalEcho", "#general", EchoText(nCalls + 1), Undef, FALSE)
    /\ UNCHANGED <<myPseudo, joinedRooms, currentRoom, roomMessages, mpPeerByRoom,
                   messagesEl, tabsEl, blinkTimers, appVisible, msgInput, connected, switchedTo, emitted, now, inflight,
                   tsVars, scrollVars>>

BufIsDuplicate(room, original) ==
    LET data == [original |-> original, translated |-> original]
        echo == isServerEchoDuplicate(Cur, room, data)
    IN /\ LOCAL_ECHO_BUFFER' = echo.st.LOCAL_ECHO_BUFFER
       /\ lastEvent' = Event("isServerEchoDuplicate", room, original, Undef, echo.dup)
       /\ UNCHANGED <<myPseudo, joinedRooms, currentRoom, roomMessages, mpPeerByRoom,
                      messagesEl, tabsEl, blinkTimers, appVisible, msgInput, connected, switchedTo, emitted, now,
                      inflight, nCalls, tsVars, scrollVars>>

NextEchoBuf ==
    \/ BufRemember
    \/ \E room \in {"#general", "#dev"}, original \in IncomingTexts :
          BufIsDuplicate(room, original)
    \/ \E d \in TickSteps : Tick(d)

SpecEchoBuf == Init /\ [][NextEchoBuf]_vars

-----------------------------------------------------------------------------
(* Properties: local send against server echo (SpecDedup) *)

\* the stored log of room R, before and after the step
StoredLog(R) == IF R \in DOMAIN roomMessages THEN roomMessages[R] ELSE <<>>
StoredLogNext(R) == IF R \in DOMAIN roomMessages' THEN roomMessages'[R] ELSE <<>>

\* the step delivers the echo of the oldest own message, sent to room R no
\* more than LOCAL_ECHO_TTL_MS ago
EchoInWindow(R) ==
    /\ inflight # <<>>
    /\ Head(inflight).room = R
    /\ now - Head(inflight).ts <= LOCAL_ECHO_TTL_MS
    /\ lastEvent'.op = "receive_message"
    /\ lastEvent'.own

\* the number of echo-buffer entries for (room, text)
EchoEntries(buf, room, text) ==
    Cardinality({i \in 1..Len(buf) : buf[i].room = room /\ buf[i].text = text})

\* C1: a message sent in a public room R and echoed by the server within
\* 5000 ms has exactly one artifact in R's stored log: the send appends one
\* artifact and the echo appends none, whether the echo carries the local
\* name or a name the server gave the sender in between.
C1_OneArtifactPerEchoedSend ==
    [][\A R \in PublicRooms :
          /\ (lastEvent'.op = "send" /\ lastEvent'.room = R
                  /\ Len(inflight') = Len(inflight) + 1)
              => Len(StoredLogNext(R)) = Len(StoredLog(R)) + 1
          /\ EchoInWindow(R) => StoredLogNext(R) = StoredLog(R)]_vars

\* C2: processing the server's echo of an own public message removes the
\* echo-buffer entry recorded for it, so a message with the same text that
\* somebody else sends to the room afterwards is rendered.
C2_EchoConsumesEntry ==
    [][\A R \in PublicRooms :
          /\ (EchoInWindow(R)
                  /\ EchoEntries(LOCAL_ECHO_BUFFER, R, Head(inflight).text) > 0)
              => EchoEntries(LOCAL_ECHO_BUFFER', R, Head(inflight).text)
                    = EchoEntries(LOCAL_ECHO_BUFFER, R, Head(inflight).text) - 1
          /\ (lastEvent'.op = "receive_message" /\ ~lastEvent'.own
                  /\ lastEvent'.room = R /\ lastEvent'.pseudo # myPseudo
                  /\ Trim(lastEvent'.text) # "" /\ inflight = <<>>)
              => Len(StoredLogNext(R)) = Len(StoredLog(R)) + 1]_vars

-----------------------------------------------------------------------------
(* Properties: the echo buffer (SpecEchoBuf) *)

\* no entry is older than the window at the present time
NoStaleEntry ==
    \A i \in 1..Len(LOCAL_ECHO_BUFFER) :
        now - LOCAL_ECHO_BUFFER[i].ts <= LOCAL_ECHO_TTL_MS

-----------------------------------------------------------------------------
(* Properties: rooms and tabs (Spec), logs and view (SpecLog) *)

\* C4: after every handler the current room is null or one of the joined
\* rooms.
C4_CurrentRoomJoined == currentRoom = Undef \/ InSeq(joinedRooms, currentRoom)

\* C5: right after switchTo(R) the view is exactly the stored artifacts of R,
\* in their order, and empty when R has no stored log: switchTo applied to
\* any reachable state shows them, and so does every handler that has just
\* called switchTo.
C5_SwitchShowsStoredLog ==
    /\ \A R \in Rooms :
          /\ switchTo(Start, R).messagesEl = StoredLog(R)
          /\ switchTo(Start, R).roomMessages = roomMessages
    /\ switchedTo # Undef => messagesEl = StoredLog(switchedTo)

\* a click on a tab has replaced the non-empty log of the room shown before
\* by the different, non-empty log of the room clicked
C5_Witness ==
    /\ lastEvent.op = "tab_click"
    /\ switchedTo = lastEvent.room
    /\ lastEvent.from \notin {Undef, switchedTo}
    /\ StoredLog(lastEvent.from) # <<>>
    /\ messagesEl # <<>>
    /\ messagesEl # StoredLog(lastEvent.from)

IsPrefix(a, b) == Len(a) <= Len(b) /\ SubSeq(b, 1, Len(a)) = a

EmittedOf(em, ev) == {i \in 1..Len(em) : em[i].ev = ev}

\* the step is a send of plain text while the current room is a private
\* room without a peer
BlockedSend ==
    /\ lastEvent'.op = "send"
    /\ StartsWith(currentRoom, "@")
    /\ currentRoom \notin DOMAIN mpPeerByRoom
    /\ Trim(lastEvent'.text) # ""
    /\ ~StartsWith(Trim(lastEvent'.text), "/mp ")

\* C7: a plain message sent while the current room is a private room without
\* a peer goes nowhere: no private_message and no send_message is emitted,
\* the room leaves the joined rooms, the peer map and the stored logs, the
\* current room becomes "#general" and a join of "#general" is emitted.
C7_PeerlessSendBlocked ==
    [][BlockedSend =>
          /\ EmittedOf(emitted', "private_message") = {}
          /\ EmittedOf(emitted', "send_message") = {}
          /\ ~InSeq(joinedRooms', currentRoom)
          /\ currentRoom \notin DOMAIN mpPeerByRoom'
          /\ currentRoom \notin DOMAIN roomMessages'
          /\ currentRoom' = "#general"
          /\ \E i \in EmittedOf(emitted', "join") : emitted'[i].room = "#general"]_vars

\* the send handler has just left a joined private room for "#general"
SendWasBlocked ==
    /\ lastEvent.op = "send"
    /\ lastEvent.text = "a"
    /\ StartsWith(lastEvent.from, "@")
    /\ lastEvent.wasJoined
    /\ ~InSeq(joinedRooms, lastEvent.from)

C7_Witness ==
    /\ SendWasBlocked
    /\ currentRoom = "#general"
    /\ Len(emitted) = 1
    /\ emitted[1].ev = "join"

IsGoneNotice(html) ==
    html.kind = "system" /\ Includes(html.body, "no longer available")

\* C8: once a blocked private send has completed, the "no longer available"
\* system artifact is in the view or in the stored log of a room the user
\* can still open.
C8_BlockedSendSurfaced ==
    SendWasBlocked =>
        \/ \E i \in 1..Len(messagesEl) : IsGoneNotice(messagesEl[i])
        \/ \E R \in Rooms :
              /\ InSeq(joinedRooms, R)
              /\ \E i \in 1..Len(StoredLog(R)) : IsGoneNotice(StoredLog(R)[i])

Occurrences(seq, x) == Cardinality({i \in 1..Len(seq) : seq[i] = x})

\* C9: open_private_room with room K and peer P, K not joined: K is joined
\* once, the peer map maps K to P, the tab of K has a label that contains P,
\* and K is the current room.
C9_PrivateRoomOpened ==
    [][\A K \in PrivateRooms, P \in Peers :
          (lastEvent'.op = "open_private_room" /\ lastEvent'.room = K
              /\ lastEvent'.pseudo = P /\ ~InSeq(joinedRooms, K))
              => /\ Occurrences(joinedRooms', K) = 1
                 /\ K \in DOMAIN mpPeerByRoom'
                 /\ mpPeerByRoom'[K] = P
                 /\ \E i \in 1..Len(tabsEl') :
                       tabsEl'[i].room = K /\ Includes(tabsEl'[i].label, P)
                 /\ currentRoom' = K]_vars

\* a private room the user was not in has been opened from "#general"
C9_Witness ==
    /\ lastEvent.op = "open_private_room"
    /\ lastEvent.pseudo \in Peers
    /\ ~lastEvent.wasJoined
    /\ lastEvent.from = "#general"
    /\ currentRoom = lastEvent.room

SwitchPrivateCount(em, K) ==
    Cardinality({i \in EmittedOf(em, "switch_private") : em[i].room = K})

\* C10: switchTo(K) emits switch_private for K exactly when K starts with
\* "@", also when K is the current room already; for a public room it never
\* does: so it is for switchTo applied to any reachable state, and for every
\* handler that has just called it.
C10_SwitchPrivateIffPrivate ==
    \A K \in Rooms :
        /\ SwitchPrivateCount(switchTo(Start, K).emitted, K)
              = IF StartsWith(K, "@") THEN 1 ELSE 0
        /\ SwitchPrivateCount(emitted, K)
              = IF switchedTo = K /\ StartsWith(K, "@") THEN 1 ELSE 0

\* open_private_room came again for the private room already shown
C10_Witness ==
    /\ lastEvent.op = "open_private_room"
    /\ lastEvent.from = lastEvent.room
    /\ switchedTo = lastEvent.room
    /\ SwitchPrivateCount(emitted, lastEvent.room) = 1

-----------------------------------------------------------------------------
(* Properties: leaving rooms (Spec) *)

\* the handler asked the server to join "#general"
JoinGeneralEmitted(em) == \E i \in EmittedOf(em, "join") : em[i].room = "#general"

\* C11: closing the tab of K, not "#general", takes K out of the joined
\* rooms; if K was current, "#general" becomes current and a join of
\* "#general" is emitted, otherwise the current room stays and nothing is
\* emitted.  The tab of "#general" has no close button, so closing a tab
\* never takes "#general" out of the joined rooms.
C11_TabClose ==
    [][lastEvent'.op = "tab_close" =>
          /\ lastEvent'.room # "#general"
          /\ ~InSeq(joinedRooms', lastEvent'.room)
          /\ Occurrences(joinedRooms', "#general") = Occurrences(joinedRooms, "#general")
          /\ \A i \in 1..Len(tabsEl') : tabsEl'[i].room = "#general" => ~tabsEl'[i].closable
          /\ IF currentRoom = lastEvent'.room
             THEN currentRoom' = "#general" /\ JoinGeneralEmitted(emitted')
             ELSE currentRoom' = currentRoom /\ emitted' = <<>>]_vars

\* the tab of the current room, joined and not "#general", has been closed
\* while "#general" was joined too
C11_Witness ==
    /\ lastEvent.op = "tab_close"
    /\ lastEvent.wasJoined
    /\ lastEvent.from = lastEvent.room
    /\ InSeq(joinedRooms, "#general")
    /\ currentRoom = "#general"
    /\ JoinGeneralEmitted(emitted)

\* C12: after the tab of a private room is closed, the peer map has no entry
\* for the room and no log is stored for it.
C12_PrivateTabCloseTearsDown ==
    (lastEvent.op = "tab_close" /\ StartsWith(lastEvent.room, "@"))
        => /\ lastEvent.room \notin DOMAIN mpPeerByRoom
           /\ lastEvent.room \notin DOMAIN roomMessages

\* the event handled last is the notice that a private conversation is gone
GhostNoticeHandled ==
    /\ lastEvent.op = "system_message"
    /\ StartsWith(lastEvent.room, "@")
    /\ Includes(ToLowerCase(lastEvent.text), "no longer exists")

\* C13: once the handler of a "no longer exists" notice for a private room
\* has completed, the room is in none of the joined rooms, the peer map and
\* the stored logs.
C13_GhostRemovedFromAllThree ==
    GhostNoticeHandled =>
        /\ ~InSeq(joinedRooms, lastEvent.room)
        /\ lastEvent.room \notin DOMAIN mpPeerByRoom
        /\ lastEvent.room \notin DOMAIN roomMessages

\* the notice came for a joined private room that was being shown
C13_Witness ==
    /\ GhostNoticeHandled
    /\ lastEvent.wasJoined
    /\ lastEvent.from = lastEvent.room

\* C14: on the removal of a ghost private room K, if K was current the
\* client switches to "#general" and emits a join of it; if another room was
\* current, the current room and the view stay as they were and no join is
\* emitted.
C14_GhostFallbackAsClose ==
    [][(lastEvent'.op = "system_message" /\ StartsWith(lastEvent'.room, "@")
           /\ Includes(ToLowerCase(lastEvent'.text), "no longer exists"))
          => IF currentRoom = lastEvent'.room
             THEN currentRoom' = "#general" /\ JoinGeneralEmitted(emitted')
             ELSE /\ currentRoom' = currentRoom
                  /\ messagesEl' = messagesEl
                  /\ EmittedOf(emitted', "join") = {}]_vars

\* C15: user_kicked or room_deleted for room R takes R out of the joined
\* rooms; if R was current the client switches to "#general" and emits a
\* join of it; otherwise the current room and the view stay as they were and
\* no join is emitted.
C15_KickedOrDeleted ==
    [][lastEvent'.op \in {"user_kicked", "room_deleted"} =>
          /\ ~InSeq(joinedRooms', lastEvent'.room)
          /\ IF currentRoom = lastEvent'.room
             THEN currentRoom' = "#general" /\ JoinGeneralEmitted(emitted')
             ELSE /\ currentRoom' = currentRoom
                  /\ messagesEl' = messagesEl
                  /\ EmittedOf(emitted', "join") = {}]_vars

\* the user was kicked from the joined room "#dev" while it was shown
C15_Witness ==
    /\ lastEvent.op = "user_kicked"
    /\ lastEvent.room = "#dev"
    /\ lastEvent.wasJoined
    /\ lastEvent.from = "#dev"
    /\ currentRoom = "#general"
    /\ JoinGeneralEmitted(emitted)

-----------------------------------------------------------------------------
(* The send path: plain text and /mp commands, in public and private rooms *)

\* a receive_message that handleIncomingMessage takes as private: the room
\* key starts with "@", or is_private is set
ReceivePrivate(room, pseudo, text, peer, flag) ==
    /\ appVisible
    /\ flag \/ StartsWith(room, "@")
    /\ Commit(OnReceiveMessage(Start,
                 [Message(room, pseudo, text, text, peer) EXCEPT !.is_private = flag]),
              Event("receive_private", room, text, pseudo, pseudo = myPseudo))
    /\ UNCHANGED <<now, inflight, nCalls>>

SendInputs == {"a", "/mp", "/mp bob", "/mp  bob", "/mp eve hi"}

NextSend ==
    \/ TimersRun /\ \E room \in {"#general"} : JoinedRoom(room)
    \/ TimersRun /\ \E room \in PrivateRooms, peer \in {"bob", Undef} : OpenPrivateRoom(room, peer)
    \/ TimersRun /\ \E i \in DOMAIN tabsEl : TabClick(i)
    \/ TimersRun /\ \E raw \in SendInputs : Send(raw)
    \/ TimersRun /\ \E pseudo \in {myPseudo} : ReceiveEcho(pseudo)
    \/ TimersRun /\ \E data \in {<<"@mp_1", FALSE>>, <<"#general", TRUE>>}, pseudo \in {"me", "bob"} :
             ReceivePrivate(data[1], pseudo, "a", Undef, data[2])
    \/ BlinkFire

SpecSend == Init /\ [][NextSend]_vars

-----------------------------------------------------------------------------
(* Properties: the send path (SpecSend) *)

\* the step is a send while the private room K is the current room
SendFromPrivate(K) ==
    /\ lastEvent'.op = "send"
    /\ currentRoom = K
    /\ StartsWith(K, "@")

\* every private_message the handler emitted goes to the peer entry of K
RoutedThroughPeer(K) ==
    \A i \in EmittedOf(emitted', "private_message") :
        K \in DOMAIN mpPeerByRoom /\ emitted'[i].to = mpPeerByRoom[K]

C17_PrivateRenderedOnEcho ==
    [][/\ \A K \in PrivateRooms :
             (SendFromPrivate(K) /\ K \in DOMAIN mpPeerByRoom
                 /\ ~StartsWith(Trim(lastEvent'.text), "/mp "))
                 => roomMessages' = roomMessages
       /\ \A R \in Rooms :
             (lastEvent'.op = "receive_private" /\ lastEvent'.room = R)
                 => /\ Len(StoredLogNext(R)) = Len(StoredLog(R)) + 1
                    /\ LOCAL_ECHO_BUFFER' = LOCAL_ECHO_BUFFER]_vars

\* the echo of an own private message has been rendered in a private room
\* with a peer while the echo buffer held an entry with the same text
C17_Witness ==
    /\ lastEvent.op = "receive_private"
    /\ lastEvent.own
    /\ StartsWith(lastEvent.room, "@")
    /\ lastEvent.room \in DOMAIN mpPeerByRoom
    /\ StoredLog(lastEvent.room) # <<>>
    /\ \E i \in 1..Len(LOCAL_ECHO_BUFFER) : LOCAL_ECHO_BUFFER[i].text = Trim(lastEvent.text)

\* the words of a command: what is left of String.split(" ") without the
\* empty strings
Words(s) == SelectSeq(Split(Trim(s)), LAMBDA w : w # "")

\* a /mp command without a target or without a text
MalformedMp(raw) == Len(Words(raw)) < 3 /\ Words(raw)[1] = "/mp"

UsageHint == SystemArtifact("Usage: /mp username message")

\* C18: a /mp command without target or without text appends the usage hint
\* to the log of the current room and emits neither open_private nor
\* private_message.
C18_MalformedMpRejected ==
    [][(lastEvent'.op = "send" /\ Trim(lastEvent'.text) # ""
           /\ MalformedMp(lastEvent'.text))
          => /\ EmittedOf(emitted', "open_private") = {}
             /\ EmittedOf(emitted', "private_message") = {}
             /\ StoredLogNext(lastEvent'.room) = Append(StoredLog(lastEvent'.room), UsageHint)]_vars

-----------------------------------------------------------------------------
(* turnstile.js and the actions gated by a verification token *)

TURNSTILE_TIMEOUT_MS == 8000

\* runTurnstile calls in one behaviour
MaxRequests == 3

Tokens == {"tok", ""}

\* everything of the chat the token module leaves alone
roomVars ==
    <<joinedRooms, currentRoom, roomMessages, mpPeerByRoom, LOCAL_ECHO_BUFFER,
      messagesEl, tabsEl, blinkTimers, appVisible, msgInput, connected, switchedTo,
      inflight, nCalls, scrollVars>>

Deadline(r) == requests[r].started + TURNSTILE_TIMEOUT_MS

\* no armed timeout is due: the browser runs a due callback first
NoTimeoutDue == \A r \in timeouts : Deadline(r) > now

\* new Promise: resolvers.push(resolve); timer = setTimeout(..., 8000);
\* kind is the event the caller emits once it has the token
runTurnstile(kind) ==
    LET id == Len(requests) + 1
    IN /\ requests' = Append(requests,
                          [kind |-> kind, started |-> now, status |-> "pending",
                           token |-> ""])
       /\ resolvers' = Append(resolvers, id)
       /\ timer' = id
       /\ timeouts' = timeouts \cup {id}

\* click on the enter button: the name is set, the error box hidden, and
\* the handler waits for runTurnstile()
LoginClick(pseudo) ==
    /\ ~appVisible
    /\ NoTimeoutDue
    /\ Len(requests) < MaxRequests
    /\ runTurnstile("register")
    /\ myPseudo' = pseudo
    /\ errorBox' = ""
    /\ emitted' = <<>>
    /\ lastEvent' = Event("login_click", Undef, Undef, pseudo, FALSE)
    /\ UNCHANGED <<roomVars, now>>

\* window.emitWithCaptcha(socket, event, payload)
EmitWithCaptcha(event) ==
    /\ NoTimeoutDue
    /\ Len(requests) < MaxRequests
    /\ runTurnstile(event)
    /\ emitted' = <<>>
    /\ lastEvent' = Event("emit_with_captcha", Undef, event, Undef, FALSE)
    /\ UNCHANGED <<roomVars, now, myPseudo, errorBox>>

\* what the callers emit when the promises of list resolve with token
RECURSIVE GatedEmits(_, _)
GatedEmits(list, token) ==
    IF list = <<>> THEN <<>>
    ELSE <<[ev |-> requests[Head(list)].kind, room |-> "", to |-> "", msg |-> token]>>
            \o GatedEmits(Tail(list), token)

\* window.onTurnstileSuccess(token), and the continuations of the promises
\* it resolves
onTurnstileSuccess(token) ==
    IF Falsy(token) \/ token = ""
    THEN /\ emitted' = <<>>
         /\ UNCHANGED tsVars
    ELSE /\ resolvers' = <<>>
         /\ timeouts' = IF timer # 0 THEN timeouts \ {timer} ELSE timeouts
         /\ timer' = 0
         /\ requests' = [r \in 1..Len(requests) |->
                            IF InSeq(resolvers, r) /\ requests[r].status = "pending"
                            THEN [requests[r] EXCEPT !.status = "resolved", !.token = token]
                            ELSE requests[r]]
         /\ emitted' = GatedEmits(resolvers, token)
         /\ UNCHANGED errorBox

TurnstileSuccess(token) ==
    /\ requests # <<>>
    /\ NoTimeoutDue
    /\ onTurnstileSuccess(token)
    /\ lastEvent' = Event("turnstile_success", Undef, token, Undef, FALSE)
    /\ UNCHANGED <<roomVars, now, myPseudo>>

\* the setTimeout callback of request r: resolvers = []; reject(...), and
\* the catch of the caller
TurnstileTimeout(r) ==
    /\ r \in timeouts
    /\ Deadline(r) <= now
    /\ resolvers' = <<>>
    /\ timeouts' = timeouts \ {r}
    /\ requests' = IF requests[r].status = "pending"
                   THEN [requests EXCEPT ![r].status = "rejected"]
                   ELSE requests
    /\ errorBox' = IF requests[r].status = "pending" /\ requests[r].kind = "register"
                   THEN "Captcha error. Please try again."
                   ELSE errorBox
    /\ emitted' = <<>>
    /\ lastEvent' = Event("turnstile_timeout", Undef, ToString(r), Undef, FALSE)
    /\ UNCHANGED <<roomVars, now, myPseudo, timer>>

\* time passes while a timeout is armed, up to the next one that is due
CaptchaTick(d) ==
    /\ timeouts # {}
    /\ \A r \in timeouts : Deadline(r) >= now + d
    /\ now' = now + d
    /\ lastEvent' = Event("tick", Undef, Undef, Undef, FALSE)
    /\ UNCHANGED <<roomVars, tsVars, myPseudo, emitted>>

NextCaptcha ==
    \/ \E pseudo \in {"me"} : LoginClick(pseudo)
    \/ \E event \in {"set_pseudo"} : EmitWithCaptcha(event)
    \/ \E token \in Tokens : TurnstileSuccess(token)
    \/ \E r \in 1..MaxRequests : TurnstileTimeout(r)
    \/ \E d \in {TURNSTILE_TIMEOUT_MS \div 2} : CaptchaTick(d)

SpecCaptcha == Init /\ [][NextCaptcha]_vars

-----------------------------------------------------------------------------
(* Properties: verification tokens (SpecCaptcha) *)

\* the step settles the pending request r as st
Settles(r, st) == requests[r].status = "pending" /\ requests'[r].status = st

GatedEvents == {"register", "set_pseudo"}

\* C19: when the token request of a gated action is rejected (timeout, or
\* no token delivered) the gated event is not emitted, an error is shown to
\* the user and no new request is started; a gated event is emitted only
\* when its request resolves, and carries the token.
C19_GatedActionNeedsToken ==
    [][/\ \A r \in 1..Len(requests) :
             Settles(r, "rejected")
                 => /\ EmittedOf(emitted', requests[r].kind) = {}
                    /\ errorBox' # ""
                    /\ Len(requests') = Len(requests)
       /\ \A i \in 1..Len(emitted') :
             (lastEvent'.op # "tick" /\ emitted'[i].ev \in GatedEvents)
                 => /\ emitted'[i].msg # ""
                    /\ \E r \in 1..Len(requests) :
                          /\ Settles(r, "resolved")
                          /\ requests[r].kind = emitted'[i].ev
                          /\ requests'[r].token = emitted'[i].msg]_vars

\* request r is pending and its own 8 seconds are not over
InWindow(r) ==
    requests[r].status = "pending" /\ now < Deadline(r)

\* C20: the timeout of one request neither rejects nor drops another
\* request that is within its own 8 seconds, and a token that arrives
\* within the 8 seconds of a request resolves it.
C20_RequestsIndependent ==
    [][/\ lastEvent'.op = "turnstile_timeout"
             => \A r \in 1..Len(requests) :
                    InWindow(r) => requests'[r].status = "pending" /\ InSeq(resolvers', r)
       /\ (lastEvent'.op = "turnstile_success" /\ lastEvent'.text # "")
             => \A r \in 1..Len(requests) :
                    InWindow(r) => requests'[r].status = "resolved"]_vars

\* the requests whose promise the step resolves
ResolvedByStep ==
    {r \in 1..Len(requests) : Settles(r, "resolved")}

\* C21: a token is delivered to one caller only: one call of
\* onTurnstileSuccess, which carries one token, never resolves the promises
\* of two runTurnstile callers.
C21_TokenOneShot ==
    [][Cardinality(ResolvedByStep) <= 1]_vars

\* C22: a request is settled at the latest 8 seconds after it was issued:
\* no request is still pending after its deadline.
C22_SettlesWithinWait ==
    \A r \in 1..Len(requests) :
        requests[r].status = "pending" => now <= Deadline(r)

-----------------------------------------------------------------------------
(* Unread marks of the tabs: messages, switches and the 80 ms callbacks in
   any order *)

NextBlink ==
    \/ \E room \in PublicRooms : JoinedRoom(room)
    \/ \E room \in PrivateRooms, peer \in {"bob"} : OpenPrivateRoom(room, peer)
    \/ \E room \in Rooms : ReceiveOther(room, "bob", "a", Undef)
    \/ \E i \in DOMAIN tabsEl : TabClick(i)
    \/ BlinkFire

SpecBlink == Init /\ [][NextBlink]_vars

-----------------------------------------------------------------------------
(* Properties: unread marks (SpecBlink) *)

\* a button of room R carries the class "blink"
Blinking(R) ==
    \E i \in 1..Len(tabsEl) : tabsEl[i].room = R /\ tabsEl[i].blink

BlinkingNext(R) ==
    \E i \in 1..Len(tabsEl') : tabsEl'[i].room = R /\ tabsEl'[i].blink

\* the step handles a message of somebody else for a joined room that is
\* not the current one
InboundForBackgroundRoom ==
    /\ lastEvent'.op = "receive_message"
    /\ lastEvent'.wasJoined
    /\ lastEvent'.room # lastEvent'.from
    /\ StoredLogNext(lastEvent'.room) # StoredLog(lastEvent'.room)

\* C23: a message that arrives for a joined room that is not the current
\* one, public or private, queues the callback that marks the tab of the
\* room, and the callback, when it runs, marks the tab of its room.
C23_InboundMarksTab ==
    [][/\ InboundForBackgroundRoom
             => (blinkTimers' # <<>>
                    /\ blinkTimers'[Len(blinkTimers')] = lastEvent'.room)
       /\ (lastEvent'.op = "blink" /\ InSeq(joinedRooms, lastEvent'.room))
             => BlinkingNext(lastEvent'.room)]_vars

\* C24: the tab of the current room is never marked: after a switch to R
\* no callback that was waiting marks the tab of R while R stays current.
C24_CurrentTabNotMarked ==
    currentRoom = Undef \/ ~Blinking(currentRoom)

-----------------------------------------------------------------------------
(* The session and its forced end *)

Reasons == KnownReasons \cup {"maintenance", Undef}

NextSession ==
    \/ connected /\ \E room \in PublicRooms : JoinedRoom(room)
    \/ connected /\ \E room \in PublicRooms : ReceiveOther(room, "bob", "a", Undef)
    \/ \E text \in {"a", "/mp bob hi"} : TypeInput(text)
    \/ \E raw \in {msgInput} : Send(raw)
    \/ \E reason \in Reasons : ForceDisconnect(reason)

SpecSession == Init /\ [][NextSession]_vars

-----------------------------------------------------------------------------
(* Properties: forced disconnect (SpecSession) *)

\* C25: a force_disconnect event ends the session whatever its reason
\* (known, unknown or missing): the socket is disconnected, the main view
\* hidden and the login view shown, the message input emptied.
C25_ForceDisconnectFatal ==
    [][lastEvent'.op = "force_disconnect"
          => ~connected' /\ ~appVisible' /\ msgInput' = ""]_vars

\* a disconnect without a reason has ended a session in which the main view
\* was shown and text was typed
C25_Witness ==
    /\ lastEvent.op = "force_disconnect"
    /\ lastEvent.pseudo = Undef
    /\ lastEvent.own
    /\ lastEvent.text # ""
    /\ ~connected /\ ~appVisible /\ msgInput = ""

-----------------------------------------------------------------------------
(* Rendering of messages with missing fields *)

\* a room_history of one text message; the event records its fields
HistoryOne(room, pseudo, text) ==
    /\ appVisible
    /\ Commit(OnRoomHistory(Start, room, <<Message(Undef, pseudo, text, text, Undef)>>),
              Event("room_history", room, text, pseudo, FALSE))
    /\ UNCHANGED <<now, inflight, nCalls>>

\* a minute passes
MinuteTick ==
    /\ now + 60000 <= MaxTicks * 60000
    /\ now' = now + 60000
    /\ lastEvent' = Event("tick", Undef, Undef, Undef, FALSE)
    /\ UNCHANGED <<roomVars, tsVars, myPseudo, emitted>>

Authors == {"bob", Undef}
Texts == {"a", Undef}

NextRender ==
    \/ TimersRun /\ \E room \in PublicRooms : JoinedRoom(room)
    \/ TimersRun /\ \E room \in {"#general", "@mp_1"}, pseudo \in Authors, text \in Texts :
          ReceiveOther(room, pseudo, text, Undef)
    \/ TimersRun /\ \E room \in {"#general"}, pseudo \in Authors, text \in Texts :
          HistoryOne(room, pseudo, text)
    \/ TimersRun /\ MinuteTick
    \/ BlinkFire

SpecRender == Init /\ [][NextRender]_vars

-----------------------------------------------------------------------------
(* Properties: rendering (SpecRender) *)

\* artifact a shows the message of the event handled by the step, which
\* carries no timestamp: a placeholder for an absent author, an empty body
\* for an absent text, the current time
ShowsHandledMessage(a) ==
    /\ a.kind = "msg"
    /\ a.user.name = (IF lastEvent'.pseudo = Undef THEN a.user.name ELSE lastEvent'.pseudo)
    /\ a.user.name # ""
    /\ lastEvent'.text = Undef => a.body = ""
    /\ a.time = TimeLabel(now' \div 1000)

\* C26: a message of receive_message or of room_history with an absent
\* author, text or timestamp is rendered all the same: the handler ends
\* with one artifact for it, with a placeholder for the author, an empty
\* body, the current time.
C26_RenderTotal ==
    [][/\ lastEvent'.op = "receive_message"
             => /\ Len(StoredLogNext(lastEvent'.room)) = Len(StoredLog(lastEvent'.room)) + 1
                /\ ShowsHandledMessage(StoredLogNext(lastEvent'.room)[Len(StoredLogNext(lastEvent'.room))])
       /\ lastEvent'.op = "room_history"
             => /\ Len(StoredLogNext(lastEvent'.room)) = 1
                /\ ShowsHandledMessage(StoredLogNext(lastEvent'.room)[1])]_vars

-----------------------------------------------------------------------------
(* Markup characters in the fields of messages *)

\* a text with each of the five characters escapeHTML replaces
Hostile == "<i>&\"'"

\* a receive_message whose translation differs from the original or not
ReceiveFields(room, pseudo, translated, original) ==
    /\ appVisible
    /\ Commit(OnReceiveMessage(Start, Message(room, pseudo, translated, original, Undef)),
              Event("receive_message", room, original, pseudo, FALSE))
    /\ UNCHANGED <<now, inflight, nCalls>>

CodeOf(room, pseudo, lang, content) ==
    /\ appVisible
    /\ Commit(OnCodeMessage(Start, room, pseudo, lang, content, 0),
              Event("code_message", room, content, pseudo, FALSE))
    /\ UNCHANGED <<now, inflight, nCalls>>

NextEscape ==
    \/ \E room \in {"#general"} : JoinedRoom(room)
    \/ \E pseudo \in {"bob", "<b>"}, translated \in {"a", Hostile}, original \in {"a", Hostile} :
          ReceiveFields("#general", pseudo, translated, original)
    \/ \E pseudo \in {"bob", "<b>"}, lang \in {"JS", "<B>"}, content \in {"x<1", Hostile} :
          CodeOf("#general", pseudo, lang, content)
    \/ \E raw \in {Hostile} : Send(raw)
    \/ \E pseudo \in {myPseudo} : ReceiveEcho(pseudo)

SpecEscape == Init /\ [][NextEscape]_vars

-----------------------------------------------------------------------------
(* Properties: escaping (SpecEscape) *)

Entities == {"&amp;", "&lt;", "&gt;", "&quot;", "&#039;"}

\* s holds none of < > " ' and no & that does not start an entity
RawFree(s) ==
    \A i \in 1..Len(s) :
        LET c == SubSeq(s, i, i)
        IN /\ c \notin {"<", ">", "\"", "'"}
           /\ c = "&" => \E e \in Entities :
                            i + Len(e) - 1 <= Len(s) /\ SubSeq(s, i, i + Len(e) - 1) = e

\* C27: in every message and code artifact the author name, the body, the
\* original text and the language tag, which come from the sender, hold no
\* raw & < > " or '.
C27_FieldsNeutralized ==
    \A R \in DOMAIN roomMessages : \A i \in 1..Len(roomMessages[R]) :
        roomMessages[R][i].kind \in {"msg", "code"}
            => /\ RawFree(roomMessages[R][i].user.name)
               /\ RawFree(roomMessages[R][i].body)
               /\ RawFree(roomMessages[R][i].orig)
               /\ RawFree(roomMessages[R][i].lang)

-----------------------------------------------------------------------------
(* Properties: eviction from the echo buffer (SpecEchoBuf) *)

\* the last n elements of seq
LastN(seq, n) ==
    IF Len(seq) > n THEN SubSeq(seq, Len(seq) - n + 1, Len(seq)) ELSE seq

\* every entry of the buffer is within the 5-second window
AllInWindow ==
    \A i \in 1..Len(LOCAL_ECHO_BUFFER) :
        LOCAL_ECHO_BUFFER[i].ts >= now - LOCAL_ECHO_TTL_MS

\* C28: while the remembered texts are all within the 5-second window, a
\* call of rememberLocalEcho appends its entry and keeps the 25 newest
\* entries in insertion order: the entry dropped is the oldest one.
C28_FifoEviction ==
    [][(lastEvent'.op = "rememberLocalEcho" /\ AllInWindow)
          => LOCAL_ECHO_BUFFER' =
                LastN(Append(LOCAL_ECHO_BUFFER,
                             [room |-> lastEvent'.room, text |-> lastEvent'.text,
                              ts |-> now']),
                      LOCAL_ECHO_MAX)]_vars

\* 30 texts were remembered at once: the buffer holds the texts 6 to 30 in
\* the order of the calls
C28_Witness ==
    /\ lastEvent.op = "rememberLocalEcho"
    /\ nCalls = LOCAL_ECHO_MAX + 5
    /\ now = 0
    /\ Len(LOCAL_ECHO_BUFFER) = LOCAL_ECHO_MAX
    /\ \A i \in 1..LOCAL_ECHO_MAX : LOCAL_ECHO_BUFFER[i].text = EchoText(i + 5)

-----------------------------------------------------------------------------
(* Properties: ensureRoomArray (SpecLog) *)

\* C29: ensureRoomArray is idempotent. A second call with the same key
\* assigns nothing, so it returns the log the first call returned; a call
\* for a key that has a log assigns nothing either and leaves the entries
\* of the log, and of every other log, as they were.
C29_EnsureIdempotent ==
    \A room \in Rooms \cup {"#new"} :
        LET s1 == ensureRoomArray(Cur, room)
            s2 == ensureRoomArray(s1, room)
        IN /\ s2 = s1
           /\ LogOf(s2, room) = LogOf(s1, room)
           /\ LogOf(s1, room) = LogOf(Cur, room)
           /\ room \in DOMAIN roomMessages => s1 = Cur
           /\ \A other \in DOMAIN roomMessages : LogOf(s1, other) = roomMessages[other]

\* a second artifact was pushed to a log, through ensureRoomArray, and the
\* first is still there; another room has a log that is empty
C29_Witness ==
    /\ lastEvent.op = "receive_message"
    /\ lastEvent.room \in DOMAIN roomMessages
    /\ Len(roomMessages[lastEvent.room]) = 2
    /\ \E R \in DOMAIN roomMessages : roomMessages[R] = <<>>

-----------------------------------------------------------------------------
(* Properties: order of the duplicate check (SpecDedup) *)

\* the states the receive_message handler of the step goes through
HandledSteps ==
    handleIncomingSteps(Start,
        Message(lastEvent'.room, lastEvent'.pseudo, lastEvent'.text,
                lastEvent'.text, Undef))

\* the step handles a message for a public room and leaves its log as it
\* was: the message was suppressed
SuppressedPublic ==
    /\ lastEvent'.op = "receive_message"
    /\ ~StartsWith(lastEvent'.room, "@")
    /\ StoredLogNext(lastEvent'.room) = StoredLog(lastEvent'.room)

\* C30: the duplicate check comes before any append: while the handler
\* of a suppressed public message runs, the stored log of the room and the
\* visible view are at every point what they were when it started.
C30_CheckBeforeAppend ==
    [][SuppressedPublic
          => \A i \in 1..Len(HandledSteps) :
                /\ LogOf(HandledSteps[i], lastEvent'.room) = StoredLog(lastEvent'.room)
                /\ HandledSteps[i].messagesEl = messagesEl]_vars

\* the echo of the own message arrived under another name within the
\* window and was suppressed through the buffer: one artifact, no entry
C30_Witness ==
    /\ lastEvent.op = "receive_message"
    /\ lastEvent.own
    /\ lastEvent.pseudo # myPseudo
    /\ Len(StoredLog(lastEvent.room)) = 1
    /\ LOCAL_ECHO_BUFFER = <<>>

-----------------------------------------------------------------------------
(* Properties: who moves the current-room pointer (Spec) *)

\* the states the system_message handler goes through on the notice that a
\* private conversation is gone: appendSystemMessage, cleanupMpRoom,
\* renderTabs, switchTo("#general"), emit("join")
GhostNoticeSteps(s, room, msg) ==
    LET s1 == appendSystemMessage(s, OrElse(room, "#general"), msg)
        s2 == cleanupMpRoom(s1, room)
        s3 == renderTabs(s2)
        s4 == switchTo(s3, "#general")
    IN <<s1, s2, s3, s4, Emit(s4, "join", "#general", "", "")>>

\* C31: the current room is moved by switchTo only: when a handler has
\* completed, a current room other than the one before is the room of its
\* switchTo call, and at every point of the handler of a "no longer exists"
\* notice the current room is the one the handler started with or the one
\* switchTo has set.
C31_OnlySwitchToMovesPointer ==
    [][/\ currentRoom' # currentRoom => switchedTo' = currentRoom'
       /\ (lastEvent'.op = "system_message" /\ StartsWith(lastEvent'.room, "@")
              /\ Includes(ToLowerCase(lastEvent'.text), "no longer exists"))
          => LET steps == GhostNoticeSteps(Start, lastEvent'.room, lastEvent'.text)
             IN \A i \in 1..Len(steps) :
                   \/ steps[i].currentRoom = currentRoom
                   \/ steps[i].currentRoom = steps[i].switchedTo]_vars

\* the part of C31 read at the end of every handler
EndOfHandlerPointer ==
    [][currentRoom' # currentRoom => switchedTo' = currentRoom']_vars

-----------------------------------------------------------------------------
(* Properties: switched_room for a private room that is not joined (Spec) *)

\* the step handles switched_room for a private room that was not joined
GhostSwitchNext ==
    /\ lastEvent'.op = "switched_room"
    /\ StartsWith(lastEvent'.room, "@")
    /\ ~lastEvent'.wasJoined

\* C35: switched_room for a private room that is not joined keeps no ghost
\* tab: the room is not joined afterwards, the peer map and the stored
\* logs have no entry for it, no switch_private is emitted and the view is
\* what it was.
C35_NoGhostTab ==
    [][GhostSwitchNext
          => /\ ~InSeq(joinedRooms', lastEvent'.room)
             /\ \A i \in DOMAIN tabsEl' : tabsEl'[i].room # lastEvent'.room
             /\ lastEvent'.room \notin DOMAIN mpPeerByRoom'
             /\ lastEvent'.room \notin DOMAIN roomMessages'
             /\ EmittedOf(emitted', "switch_private") = {}
             /\ messagesEl' = messagesEl]_vars

\* switched_room came for a private room that was not joined while a
\* public room with a stored log was shown
C35_Witness ==
    /\ lastEvent.op = "switched_room"
    /\ StartsWith(lastEvent.room, "@")
    /\ ~lastEvent.wasJoined
    /\ lastEvent.from = currentRoom
    /\ ~StartsWith(currentRoom, "@")
    /\ messagesEl # <<>>

-----------------------------------------------------------------------------
(* Properties: the view against the stored log of the current room (SpecLog) *)

\* C36: when a handler has completed, the view shows the stored log of the
\* current room, and nothing when there is no current room or no log is
\* stored for it.
C36_ViewIsCurrentLog ==
    messagesEl = StoredLog(currentRoom)

\* a room_history replaced the log of the room shown while an artifact is
\* stored for a room that is not shown
C36_Witness ==
    /\ lastEvent.op = "room_history"
    /\ lastEvent.room = currentRoom
    /\ Len(messagesEl) = 1
    /\ \E R \in DOMAIN roomMessages : R # currentRoom /\ roomMessages[R] # <<>>

-----------------------------------------------------------------------------
(* Properties: what the receive_message handler drops (SpecDedup) *)

\* C37: a public message the handler drops without rendering is the echo
\* of a message this client sent: a message it did not send, whatever its
\* text and its author, adds one artifact to the log of its room, so that
\* no more messages are dropped than were sent.
C37_DropsOnlyOwnEchoes ==
    [][(/\ lastEvent'.op = "receive_message"
        /\ ~StartsWith(lastEvent'.room, "@")
        /\ ~lastEvent'.own)
          => Len(StoredLogNext(lastEvent'.room)) = Len(StoredLog(lastEvent'.room)) + 1]_vars

-----------------------------------------------------------------------------
(* Properties: the joined rooms as a set (Spec) *)

\* C38: no room key is twice in the joined rooms, whatever events have been
\* handled.
C38_JoinedRoomsDistinct ==
    \A i, j \in DOMAIN joinedRooms : joinedRooms[i] = joinedRooms[j] => i = j

\* a room that was joined already was announced again, by joined_room,
\* switched_room, open_private_room or a private message, next to another
\* joined room
C38_Witness ==
    /\ lastEvent.op \in {"joined_room", "switched_room", "open_private_room", "receive_message"}
    /\ lastEvent.wasJoined
    /\ InSeq(joinedRooms, lastEvent.room)
    /\ Len(joinedRooms) = 2

-----------------------------------------------------------------------------
(* Scrolling: the pinned flag, the scroll callbacks and the media of the view *)

\* scroll callbacks requested and not yet run
MaxScrollTimers == 8

\* After the handler and before anything else: the browser lays the view
\* out, which keeps the scroll position within the content; the callback of
\* the MutationObserver runs if the handler added element nodes; "scroll" is
\* delivered if the layout moved the position.
Settle(s) ==
    LET max == ScrollHeight(s) - ClientHeight
        c == IF s.scrollTop > max THEN [s EXCEPT !.scrollTop = max] ELSE s
        o == IF s.added THEN MediaObserver(c) ELSE c
    IN IF c.scrollTop # s.scrollTop THEN updateScrollState(o) ELSE o

\* the handler has run to completion and left state s, scroll state included
CommitScroll(s, ev) ==
    /\ CommitState(s, ev)
    /\ Len(Settle(s).scrollTimers) <= MaxScrollTimers
    /\ userIsAtBottom' = Settle(s).userIsAtBottom
    /\ scrollTop' = Settle(s).scrollTop
    /\ scrollTimers' = Settle(s).scrollTimers
    /\ mediaEls' = Settle(s).mediaEls

\* a callback or a listener of the view has run and left the scroll state
\* of s; it touches nothing else of the client
ScrollStep(s, ev) ==
    /\ Len(s.scrollTimers) <= MaxScrollTimers
    /\ userIsAtBottom' = s.userIsAtBottom
    /\ scrollTop' = s.scrollTop
    /\ scrollTimers' = s.scrollTimers
    /\ mediaEls' = s.mediaEls
    /\ switchedTo' = s.switchedTo
    /\ lastEvent' = ev
    /\ UNCHANGED <<myPseudo, joinedRooms, currentRoom, roomMessages, mpPeerByRoom,
                   LOCAL_ECHO_BUFFER, messagesEl, tabsEl, blinkTimers, appVisible,
                   msgInput, connected, emitted, now, inflight, nCalls, tsVars>>

ScrollJoinedRoom(room) ==
    /\ appVisible \/ room = "#general"
    /\ CommitScroll(OnJoinedRoom(Start, "#7aa2f7", room),
                    Event("joined_room", room, Undef, Undef, FALSE))
    /\ UNCHANGED <<now, inflight, nCalls>>

ScrollTabClick(i) ==
    /\ appVisible
    /\ CommitScroll(TabClickHandler(Start, tabsEl[i].room),
                    Event("tab_click", tabsEl[i].room, Undef, Undef, FALSE))
    /\ UNCHANGED <<now, inflight, nCalls>>

ScrollReceive(room, text) ==
    /\ appVisible
    /\ CommitScroll(OnReceiveMessage(Start, Message(room, "bob", text, text, Undef)),
                    Event("receive_message", room, text, "bob", FALSE))
    /\ UNCHANGED <<now, inflight, nCalls>>

ScrollCodeMessage(room) ==
    /\ appVisible
    /\ CommitScroll(OnCodeMessage(Start, room, "bob", "JS", "x<1", 0),
                    Event("code_message", room, "x<1", "bob", FALSE))
    /\ UNCHANGED <<now, inflight, nCalls>>

\* the user scrolls the view to the top or to the end: "scroll" is
\* delivered to the listener of messages.js 138
UserScrolls(v) ==
    /\ appVisible
    /\ v # scrollTop
    /\ ScrollStep(ScrollTo([Cur EXCEPT !.switchedTo = Undef], v),
                  Event("scroll", Undef, Undef, Undef, userIsAtBottom))

\* the i-th callback may run when none requested before it is due earlier
\* or at the same time
CallbackDue(i) ==
    \A j \in 1..(i - 1) : scrollTimers[j].delay > scrollTimers[i].delay

\* the browser runs a scroll callback; the event records who requested it
\* (room), what it does (text), its delay (pseudo) and whether the view was
\* pinned when it ran (own)
TimerFires(i) ==
    /\ CallbackDue(i)
    /\ ScrollStep(RunCallback([Cur EXCEPT !.scrollTimers =
                                  SubSeq(@, 1, i - 1) \o SubSeq(@, i + 1, Len(@))],
                              scrollTimers[i]),
                  Event("callback", scrollTimers[i].by, scrollTimers[i].run,
                        ToString(scrollTimers[i].delay), userIsAtBottom))

\* what the browser may deliver for a media element in a given state, and
\* the state the element is in afterwards
MediaEvents ==
    {<<"img", "pending", "load", "loaded">>,
     <<"img", "pending", "error", "failed">>,
     <<"video", "pending", "loadedmetadata", "metadata">>,
     <<"video", "metadata", "loadeddata", "loaded">>,
     <<"video", "pending", "error", "failed">>,
     <<"video", "metadata", "error", "failed">>}

\* the listeners initMediaLoadFix has put on an element for an event type:
\* one per scan that found the element not ready; none for "error" on a video
Listeners(m, type) ==
    IF m.tag = "video" /\ type = "error" THEN 0 ELSE m.scans

\* the browser delivers event e to the i-th media element of the view; each
\* listener runs if (userIsAtBottom) scrollToBottom(container)
MediaEvent(i, e) ==
    /\ mediaEls[i].tag = e[1]
    /\ mediaEls[i].state = e[2]
    /\ ScrollStep(ScrollIfPinned([Cur EXCEPT !.mediaEls[i].state = e[4],
                                             !.switchedTo = Undef],
                                 Listeners(mediaEls[i], e[3])),
                  Event("media", mediaEls[i].tag, e[3], ToString(i), userIsAtBottom))

\* a message with the URL of an image and one with the URL of a video
MediaTexts == {"http://h/a.png", "http://h/a.mp4"}

\* chat events are further apart than the 120 ms of the last scroll
\* callback; the user and the media of the view keep no such distance
CallbacksRun == scrollTimers = <<>>

NextScroll ==
    \/ CallbacksRun /\ \E room \in PublicRooms : ScrollJoinedRoom(room)
    \/ CallbacksRun /\ \E i \in DOMAIN tabsEl : ScrollTabClick(i)
    \/ CallbacksRun /\ \E room \in PublicRooms : ScrollReceive(room, "a")
    \/ CallbacksRun /\ ScrollCodeMessage("#dev")
    \/ \E v \in {0, ScrollHeight(Cur) - ClientHeight} : UserScrolls(v)
    \/ \E i \in DOMAIN scrollTimers : TimerFires(i)

SpecScroll == Init /\ [][NextScroll]_vars

-----------------------------------------------------------------------------
(* Media of the view: messages that embed an image or a video *)

NextMedia ==
    \/ CallbacksRun /\ ScrollJoinedRoom("#general")
    \/ CallbacksRun /\ \E text \in MediaTexts : ScrollReceive("#general", text)
    \/ \E v \in {0, ScrollHeight(Cur) - ClientHeight} : UserScrolls(v)
    \/ \E i \in DOMAIN scrollTimers : TimerFires(i)
    \/ \E i \in DOMAIN mediaEls, e \in MediaEvents : MediaEvent(i, e)

SpecMedia == Init /\ [][NextMedia]_vars

-----------------------------------------------------------------------------
(* Properties: the pinned flag after a switch (SpecScroll) *)

\* C32: switchTo resets the pinned state and scrolls to the end: once the
\* scroll callbacks of a handler that switched have run, and before the user
\* scrolls again, the view is pinned whatever it was in the room shown
\* before, so that the next artifact appended to the room scrolls it.
C32_SwitchPinsView ==
    (switchedTo # Undef /\ scrollTimers = <<>>) => userIsAtBottom

-----------------------------------------------------------------------------
(* Properties: scrollToBottom and forceScrollToBottom (SpecScroll) *)

\* the step runs a callback that scrollToBottom or forceScrollToBottom
\* requested
ScrollCallbackRuns ==
    /\ lastEvent'.op = "callback"
    /\ lastEvent'.room \in {"scrollToBottom", "forceScrollToBottom"}

\* the delays of the callbacks a call adds to those requested before
DelaysAdded(s) ==
    [k \in 1..(Len(s.scrollTimers) - Len(scrollTimers)) |->
        s.scrollTimers[Len(scrollTimers) + k].delay]

\* the step leaves the view scrolled to its end
WritesEnd == scrollTop' = ScrollHeight(Cur) - ClientHeight

\* what a call of either function requests: nothing from scrollToBottom
\* while the view is not pinned, else a callback at the next frame, one after
\* 30 ms and one after 120 ms
RequestsThree ==
    /\ ~userIsAtBottom => scrollToBottom(Cur) = Cur
    /\ userIsAtBottom => DelaysAdded(scrollToBottom(Cur)) = <<0, 30, 120>>
    /\ DelaysAdded(forceScrollToBottom(Cur)) = <<0, 30, 120>>

\* C33: scrollToBottom does nothing, then or later, when the view is not
\* pinned at the call; when it is, it scrolls to the end at the next frame
\* and again after 30 ms and after 120 ms; forceScrollToBottom makes the
\* same three writes whatever the flag.
C33_ThreeWrites ==
    [][/\ RequestsThree
       /\ ScrollCallbackRuns => WritesEnd]_vars

\* C33 as the code has it: the writes of scrollToBottom after 30 ms and
\* after 120 ms are made only if the view is pinned when the delay is over,
\* and else leave the scroll state alone; its write at the next frame and the
\* three writes of forceScrollToBottom are made whatever the flag is then.
C33_ReassertWhilePinned ==
    [][/\ RequestsThree
       /\ ScrollCallbackRuns
             => IF \/ lastEvent'.room = "forceScrollToBottom"
                   \/ lastEvent'.pseudo = "0"
                   \/ userIsAtBottom
                THEN WritesEnd
                ELSE scrollTop' = scrollTop /\ userIsAtBottom' = userIsAtBottom]_vars

\* a callback scrollToBottom requested for later ran after the user had
\* scrolled away from the end, and left the view where the user put it
C33_Witness ==
    /\ lastEvent.op = "callback"
    /\ lastEvent.room = "scrollToBottom"
    /\ lastEvent.pseudo \in {"30", "120"}
    /\ ~lastEvent.own
    /\ ~userIsAtBottom
    /\ scrollTop < ScrollHeight(Cur) - ClientHeight

-----------------------------------------------------------------------------
(* Properties: media that load or fail in a pinned view (SpecMedia) *)

\* the step delivers the end of a load, or its failure, to a media element
\* that a scan of the view found not ready, while the view is pinned
MediaSettlesWhilePinned(types) ==
    /\ lastEvent'.op = "media"
    /\ lastEvent'.text \in types
    /\ userIsAtBottom
    /\ \E i \in DOMAIN mediaEls :
          /\ lastEvent'.pseudo = ToString(i)
          /\ mediaEls[i].scans > 0

\* the step has called scrollToBottom on the pinned view
ScrollRequested == Len(scrollTimers') >= Len(scrollTimers) + 3

\* C34: when an image or a video that was not loaded when it was scanned
\* finishes loading, and also when it fails to load, a pinned view is
\* scrolled to the end again.
C34_RecheckAfterLoadOrFailure ==
    [][MediaSettlesWhilePinned({"load", "loadeddata", "error"})
          => ScrollRequested]_vars

\* the same for every outcome but the failure of a video
RecheckBesidesVideoFailure ==
    [][/\ MediaSettlesWhilePinned({"load", "loadeddata", "loadedmetadata"})
             => ScrollRequested
       /\ (MediaSettlesWhilePinned({"error"}) /\ lastEvent'.room = "img")
             => ScrollRequested]_vars

====
